---- MODULE Spec2Model ----
(***************************************************************************)
(* A model of phazr's execution engine (src/phazr/executor.py): the        *)
(* single-operation path (_execute_operation), the group paths             *)
(* (_execute_sequential, _execute_parallel), the phase runner (run_phase,  *)
(* run_phase_by_name) and the driver (run_full_setup).                     *)
(*                                                                         *)
(* The engine is an asyncio program: only an await can hand control to     *)
(* another coroutine.  Each action is a piece of one coroutine's code that *)
(* holds no suspending await in its middle; the awaits of handler.execute, *)
(* asyncio.sleep and asyncio.gather separate actions.                      *)
(***************************************************************************)
EXTENDS Integers, Sequences, FiniteSets, TLC

VARIABLES
    config,        \* OrchestratorConfig: phases, the version's groups, execution
    handlers,      \* HandlerRegistry._handlers: operation type -> handler
    patched,       \* what _evaluate_condition / _run_test_command return
    entry,         \* the method of Orchestrator that was called
    setup,         \* frame of run_full_setup
    phase,         \* frame of run_phase
    group,         \* frame of _execute_sequential / _execute_parallel
    tasks,         \* one record per _execute_operation coroutine of the group
    finish_order,  \* the tasks in the order they finished
    display        \* the notifications DisplayManager received, in order

vars == <<config, handlers, patched, entry, setup, phase, group, tasks,
          finish_order, display>>

----------------------------------------------------------------------------
(* Bounds of the checked inputs.                                           *)

MaxRetry == 2      \* retry_count ranges over 0..MaxRetry in the single-operation runs
MaxOps == 3        \* a group holds at most MaxOps operations
MaxPhases == 2     \* a configuration holds at most MaxPhases phases

----------------------------------------------------------------------------
(* Data model (src/phazr/models.py).                                       *)

\* Optional[str] values are sequences of fragments; None is its own value.
None == <<"None">>

OperationType ==
    {"script_exec", "kubectl_exec", "kubectl_restart", "kubectl_apply",
     "kubectl_delete", "http_request", "custom", "skip"}

\* duration is either the literal 0.0 or a measured time.time() - start_time
ZeroDuration == "0.0"
Elapsed == "time() - start_time"

Operation(description, type, retry_count, skip_if, test_command, fail_on_error) ==
    [description |-> description, type |-> type, retry_count |-> retry_count,
     skip_if |-> skip_if, test_command |-> test_command,
     fail_on_error |-> fail_on_error]

ExecutionResult(operation, success, output, error, duration, retries_used) ==
    [operation |-> operation, success |-> success, output |-> output,
     error |-> error, duration |-> duration, retries_used |-> retries_used]

Phase(name, groups, depends_on, continue_on_error, parallel_groups, enabled) ==
    [name |-> name, groups |-> groups, depends_on |-> depends_on,
     continue_on_error |-> continue_on_error,
     parallel_groups |-> parallel_groups, enabled |-> enabled]

\* The PhaseResult that run_phase builds from the results it collected
\* (executor.py 213-229).
PhaseResult(phase_config, version, results) ==
    [phase_name |-> phase_config.name,
     phase_config |-> phase_config,
     version |-> version,
     results |-> results,
     total_operations |-> Len(results),
     successful_operations |-> Len(SelectSeq(results, LAMBDA r : r.success)),
     failed_operations |->
         Len(SelectSeq(results,
                       LAMBDA r : ~r.success /\ r.operation.type # "skip")),
     skipped_operations |->
         Len(SelectSeq(results, LAMBDA r : r.operation.type = "skip"))]

\* PhaseResult.is_successful (models.py 112-115)
is_successful(phase_result) == phase_result.failed_operations = 0

\* PhaseResult.success_rate (models.py 105-110): a percentage, kept as the
\* fraction num/den; the literal 100.0 is 100/1.
success_rate(phase_result) ==
    IF phase_result.total_operations = 0
    THEN [num |-> 100, den |-> 1]
    ELSE [num |-> phase_result.successful_operations * 100,
          den |-> phase_result.total_operations]

----------------------------------------------------------------------------
(* Handler registry (src/phazr/handlers.py) and the handlers the           *)
(* constructor registers.                                                  *)

NoHandler == "None"

EmptyRegistry == [t \in OperationType |-> NoHandler]

\* A registration that keeps the handler a type already has.
register_if_absent(reg, operation_type, handler) ==
    IF reg[operation_type] = NoHandler
    THEN [reg EXCEPT ![operation_type] = handler] ELSE reg

\* Lines 337-339: "self._handlers[operation_type] = handler"
register(reg, operation_type, handler) ==
    [reg EXCEPT ![operation_type] = handler]

\* A removal that empties the registry.
unregister_all(reg, operation_type) == [t \in DOMAIN reg |-> NoHandler]

\* Lines 345-348: "if operation_type in self._handlers: del ..."
unregister(reg, operation_type) ==
    IF reg[operation_type] # NoHandler
    THEN [reg EXCEPT ![operation_type] = NoHandler] ELSE reg

\* A lookup that falls back to the script handler for an unregistered type.
get_handler_with_fallback(reg, operation_type) ==
    IF reg[operation_type] = NoHandler THEN "ScriptHandler" ELSE reg[operation_type]

get_handler(reg, operation_type) == reg[operation_type]

\* A lookup that takes the entry out of the registry.
RegistryAfterLookupPopped(reg, operation_type) ==
    [reg EXCEPT ![operation_type] = NoHandler]

\* Lines 341-343: "self._handlers.get(operation_type)" leaves the registry
\* as it is.
RegistryAfterLookup(reg, operation_type) == reg

_register_default_handlers(reg) ==
    register(register(register(reg,
        "script_exec", "ScriptHandler"),
        "kubectl_exec", "KubectlExecHandler"),
        "kubectl_restart", "KubectlRestartHandler")

----------------------------------------------------------------------------
(* _execute_operation (executor.py 353-413).                               *)

\* The methods of the Orchestrator as the class defines them: the two stubs
\* return False and True, and _execute_operation is the method itself
\* ("mock": a test has put a mock with a side effect in its place).
Unpatched ==
    [evaluate_condition |-> FALSE, run_test_command |-> TRUE,
     execute_operation |-> "real"]

_evaluate_condition(condition) == patched.evaluate_condition

_run_test_command(test_command) == patched.run_test_command

_create_dry_run_result(operation) ==
    ExecutionResult(operation, TRUE,
                    <<"[DRY RUN] Would execute: ", operation.description>>,
                    None, ZeroDuration, 0)

SkippedResult(operation) ==
    ExecutionResult(operation, TRUE, <<"Operation skipped due to condition">>,
                    None, ZeroDuration, 0)

NoHandlerResult(operation) ==
    ExecutionResult(operation, FALSE, None,
                    <<"No handler registered for operation type: ", operation.type>>,
                    ZeroDuration, 0)

ExhaustedResult(operation, last_error, retries) ==
    ExecutionResult(operation, FALSE, None, last_error, Elapsed, retries)

\* What one call of handler.execute can do: return a successful result,
\* return a failed result with an error text, return a failed result without
\* one (ScriptHandler: a non-zero return code and nothing on stderr), or
\* raise.
HandlerOutcomes == {"ok", "fail", "fail_quiet", "raise"}

HandlerReturn(operation, outcome) ==
    IF outcome = "ok"
    THEN ExecutionResult(operation, TRUE, <<"handler output">>, None, ZeroDuration, 0)
    ELSE IF outcome = "fail"
    THEN ExecutionResult(operation, FALSE, <<"">>, <<"handler error">>, ZeroDuration, 0)
    ELSE ExecutionResult(operation, FALSE, <<"">>, None, ZeroDuration, 0)

NoResult == ExecutionResult(Operation("", "skip", 0, None, None, FALSE),
                            FALSE, None, None, ZeroDuration, 0)

\* A coroutine that was not created yet.  exception: what the coroutine
\* raised, if it ended with an exception.  handler: what get_handler gave.
NewTask(operation, coro) ==
    [operation |-> operation, coro |-> coro, pc |-> "created",
     retries |-> 0, last_error |-> None, result |-> NoResult,
     exception |-> None, handler |-> NoHandler,
     conds |-> 0, lookups |-> 0, calls |-> 0, raises |-> 0, tests |-> 0,
     sleeps |-> 0]

\* A coroutine that never returns.
FinishNever(t, task, result) == UNCHANGED <<tasks, finish_order>>

\* Lines 357, 368, 393 and 406: _execute_operation returns its result.
Finish(t, task, result) ==
    /\ tasks' = [tasks EXCEPT ![t] = [task EXCEPT !.pc = "done", !.result = result]]
    /\ finish_order' = Append(finish_order, t)

\* A skip check that never skips.
ShouldSkipNever(operation) == FALSE

\* Line 356: "operation.skip_if and await self._evaluate_condition(...)".
ShouldSkip(operation) ==
    operation.skip_if # None /\ _evaluate_condition(operation.skip_if)

\* A loop that makes one attempt too many.
AttemptsRemainOneMore(retries, retry_count) == retries <= retry_count + 1

\* A loop that makes one attempt too few.
AttemptsRemainStrict(retries, retry_count) == retries < retry_count

\* Lines 381 and 399: "retries <= operation.retry_count".
AttemptsRemain(retries, retry_count) == retries <= retry_count

\* Lines 355-381: the skip check, the handler lookup and the first test of
\* the retry loop's condition.
ExecuteOperationStart(t) ==
    /\ t \in DOMAIN tasks
    /\ tasks[t].pc = "created"
    /\ tasks[t].coro = "_execute_operation"
    /\ LET task == tasks[t]
           op == task.operation
           evaluated == op.skip_if # None
           skipped == ShouldSkip(op)
           t1 == [task EXCEPT !.conds = IF evaluated THEN 1 ELSE 0]
           t2 == [t1 EXCEPT !.lookups = 1,
                            !.handler = get_handler(handlers, op.type)]
       IN  IF skipped
           THEN Finish(t, t1, SkippedResult(op))
           ELSE IF get_handler(handlers, op.type) = NoHandler
           THEN Finish(t, t2, NoHandlerResult(op))
           ELSE IF AttemptsRemain(0, op.retry_count)
           THEN /\ tasks' = [tasks EXCEPT ![t] = [t2 EXCEPT !.pc = "call"]]
                /\ UNCHANGED finish_order
           ELSE Finish(t, t2, ExhaustedResult(op, None, 0))
    /\ handlers' = IF ShouldSkip(tasks[t].operation) THEN handlers
                   ELSE RegistryAfterLookup(handlers, tasks[t].operation.type)
    /\ UNCHANGED <<config, patched, entry, setup, phase, group, display>>

\* A sleep after every failed attempt, the last one included.
ShouldSleepAlways(retries, retry_count) == TRUE

\* Line 399: "if retries <= operation.retry_count:" before the sleep.
ShouldSleep(retries, retry_count) == retries <= retry_count

\* Lines 381 and 405-413: the loop's condition is tested again; the loop
\* goes round or the exhausted result is returned.
LoopRound(t, task) ==
    IF AttemptsRemain(task.retries, task.operation.retry_count)
    THEN /\ tasks' = [tasks EXCEPT ![t] = [task EXCEPT !.pc = "call"]]
         /\ UNCHANGED finish_order
    ELSE Finish(t, task, ExhaustedResult(task.operation, task.last_error,
                                         task.retries))

\* Lines 395-413: the except branch, then either the sleep before the next
\* attempt or the next test of the loop's condition.
AttemptFailed(t, task, message) ==
    LET retries == task.retries + 1
        t1 == [task EXCEPT !.last_error = message, !.retries = retries]
    IN  IF ShouldSleep(retries, task.operation.retry_count)
        THEN /\ tasks' = [tasks EXCEPT ![t] = [t1 EXCEPT !.pc = "sleep"]]
             /\ UNCHANGED finish_order
        ELSE LoopRound(t, t1)

\* A post-check whose outcome is not looked at.
PostCheckFailedNever(tested, test_result) == FALSE

\* Lines 386-389: "if not test_result: raise Exception(...)", reached only
\* when the test command was run.
PostCheckFailed(tested, test_result) == tested /\ ~test_result

\* A stamp that counts the attempts made, the successful one included.
StampRetriesAsAttempts(result, retries) ==
    [result EXCEPT !.retries_used = retries + 1, !.duration = Elapsed]

\* Lines 391-392: "result.retries_used = retries", "result.duration = ...".
StampRetries(result, retries) ==
    [result EXCEPT !.retries_used = retries, !.duration = Elapsed]

\* Lines 382-393: one call of handler.execute and what follows it.  A result
\* the handler returns is returned to the caller, successful or not, unless
\* the post-check raises.
HandlerExecute(t) ==
    /\ t \in DOMAIN tasks
    /\ tasks[t].pc = "call"
    /\ \E outcome \in HandlerOutcomes :
        LET task == [tasks[t] EXCEPT !.calls = @ + 1]
            op == task.operation
            result == HandlerReturn(op, outcome)
            tested == op.test_command # None /\ result.success
            t1 == [task EXCEPT !.tests = IF tested THEN @ + 1 ELSE @]
        IN  IF outcome = "raise"
            THEN AttemptFailed(t, [task EXCEPT !.raises = @ + 1], <<"handler raised">>)
            ELSE IF PostCheckFailed(tested, _run_test_command(op.test_command))
            THEN AttemptFailed(t, t1, <<"Test command failed">>)
            ELSE Finish(t, t1, StampRetries(result, task.retries))
    /\ UNCHANGED <<config, handlers, patched, entry, setup, phase, group, display>>

\* Line 403: asyncio.sleep(retry_delay) returns and the loop goes round.
RetrySleep(t) ==
    /\ t \in DOMAIN tasks
    /\ tasks[t].pc = "sleep"
    /\ LoopRound(t, [tasks[t] EXCEPT !.sleeps = @ + 1])
    /\ UNCHANGED <<config, handlers, patched, entry, setup, phase, group, display>>

----------------------------------------------------------------------------
(* _execute_sequential and _execute_parallel (executor.py 261-351).        *)

Notification(event, name, index, total, success) ==
    [event |-> event, name |-> name, index |-> index, total |-> total,
     success |-> success]

show_operation_start(operation, index, total) ==
    Notification("operation_start", operation.description, index, total, TRUE)

show_operation_result(result, index, total) ==
    Notification("operation_result", result.operation.description, index, total,
                 result.success)

NoFrame == [fn |-> "none", pc |-> "idle", operations |-> <<>>, start_index |-> 0,
            total |-> 0, i |-> 0, results |-> <<>>]

\* A call fn(operations, start_index, total); "total = total or len(operations)".
GroupCall(fn, operations, start_index, total) ==
    [fn |-> fn, pc |-> "start", operations |-> operations,
     start_index |-> start_index,
     total |-> IF total = 0 THEN Len(operations) ELSE total,
     i |-> 1, results |-> <<>>]

\* A loop that breaks on every failure.
ShouldBreakOnAnyFailure(result, operation) == ~result.success

\* Line 288: "not result.success and operation.fail_on_error".
ShouldBreak(result, operation) == ~result.success /\ operation.fail_on_error

\* An engine that does not look at the dry_run flag.
DryRunIgnored == FALSE

\* Lines 277 and 309: "self.config.execution.dry_run".
DryRun == config.execution.dry_run

\* A loop that appends the result without showing it.
SequentialAppendSilent(result, shown) ==
    LET operation == group.operations[group.i]
    IN  /\ group' = [group EXCEPT
                        !.results = Append(@, result),
                        !.i = @ + 1,
                        !.pc = IF ShouldBreak(result, operation)
                                  \/ group.i = Len(group.operations)
                               THEN "returned" ELSE "start"]
        /\ display' = display \o shown

\* Lines 282-291: the result is appended and shown, then the loop breaks or
\* goes on to the next operation.  shown: the notifications sent before.
SequentialAppend(result, shown) ==
    LET operation == group.operations[group.i]
        current_index == group.start_index + group.i
    IN  /\ group' = [group EXCEPT
                        !.results = Append(@, result),
                        !.i = @ + 1,
                        !.pc = IF ShouldBreak(result, operation)
                                  \/ group.i = Len(group.operations)
                               THEN "returned" ELSE "start"]
        /\ display' = display \o shown \o
               <<show_operation_result(result, current_index, group.total)>>

\* Lines 271-280: one round of the loop up to the call of _execute_operation
\* (in a dry run: the whole round).
SequentialNext ==
    /\ group.fn = "_execute_sequential"
    /\ group.pc = "start"
    /\ IF group.i > Len(group.operations)
       THEN /\ group' = [group EXCEPT !.pc = "returned"]
            /\ UNCHANGED <<tasks, display>>
       ELSE LET operation == group.operations[group.i]
                current_index == group.start_index + group.i
                started == show_operation_start(operation, current_index, group.total)
            IN  IF DryRun
                THEN /\ SequentialAppend(_create_dry_run_result(operation), <<started>>)
                     /\ UNCHANGED tasks
                ELSE /\ group' = [group EXCEPT !.pc = "await_op"]
                     /\ tasks' = Append(tasks, NewTask(operation, "_execute_operation"))
                     /\ display' = Append(display, started)
    /\ UNCHANGED <<config, handlers, patched, entry, setup, phase, finish_order>>

\* _execute_operation has returned to the loop of _execute_sequential.
SequentialResume ==
    /\ group.fn = "_execute_sequential"
    /\ group.pc = "await_op"
    /\ tasks[group.i].pc = "done"
    /\ SequentialAppend(tasks[group.i].result, <<>>)
    /\ UNCHANGED <<config, handlers, patched, entry, setup, phase, tasks,
                   finish_order>>

\* _chunk_list: the chunk that starts at offset i (0-based) of lst.
Min(a, b) == IF a < b THEN a ELSE b

ChunkIndices(n, i, chunk_size) == (i + 1) .. Min(i + chunk_size, n)

\* list.index: the first position holding an equal element.
IndexOf(lst, x) == CHOOSE k \in 1..Len(lst) :
                      lst[k] = x /\ \A j \in 1..(k - 1) : lst[j] # x

\* Lines 302-305: the start notifications of the whole group.
StartNotifications(operations, start_index, total) ==
    [k \in 1..Len(operations) |->
        show_operation_start(operations[k], start_index + k, total)]

\* Lines 307-318: one task per operation, all created before the first await.
CreateTasks(operations) ==
    [k \in 1..Len(operations) |->
        NewTask(operations[k],
                IF DryRun THEN "dry_run_wrapper"
                                            ELSE "_execute_operation")]

\* Lines 302-328: the notifications, the tasks, and the first chunk handed to
\* asyncio.gather.  range(0, n, 0) raises ValueError; a negative step gives
\* no chunk at all.
ParallelStart ==
    /\ group.fn = "_execute_parallel"
    /\ group.pc = "start"
    /\ tasks' = CreateTasks(group.operations)
    /\ display' = display \o
           StartNotifications(group.operations, group.start_index, group.total)
    /\ group' = [group EXCEPT
           !.i = 0,
           !.pc = IF config.execution.max_parallel = 0 THEN "raised"
                  ELSE IF config.execution.max_parallel < 0
                          \/ Len(group.operations) = 0 THEN "returned"
                  ELSE "gather"]
    /\ UNCHANGED <<config, handlers, patched, entry, setup, phase, finish_order>>

\* The mock's side effect raises: the task ends with the exception.  (When
\* the side effect calls the method itself, the task is ExecuteOperationStart's.)
MockSideEffect(t) ==
    /\ t \in DOMAIN tasks
    /\ patched.execute_operation = "mock"
    /\ tasks[t].pc = "created"
    /\ tasks[t].coro = "_execute_operation"
    /\ tasks' = [tasks EXCEPT ![t] = [@ EXCEPT !.pc = "done",
                                               !.exception = <<"Test error">>]]
    /\ finish_order' = Append(finish_order, t)
    /\ UNCHANGED <<config, handlers, patched, entry, setup, phase, group, display>>

\* An error result that drops the exception's text.
ErrorResultWithoutText(operation, exception) ==
    ExecutionResult(operation, FALSE, None, None, ZeroDuration, 0)

\* Lines 332-338: "ExecutionResult(operation=operation, success=False,
\* error=str(result), duration=0.0)"
ErrorResult(operation, exception) ==
    ExecutionResult(operation, FALSE, None, exception, ZeroDuration, 0)

\* Lines 328-344: what gather(..., return_exceptions=True) hands back for a
\* task, and the result made of it.
Gathered(task) ==
    IF task.exception # None THEN ErrorResult(task.operation, task.exception)
    ELSE task.result

\* Lines 311-312: the task of a dry run.
DryRunWrapper(t) ==
    /\ t \in DOMAIN tasks
    /\ tasks[t].pc = "created"
    /\ tasks[t].coro = "dry_run_wrapper"
    /\ Finish(t, tasks[t], _create_dry_run_result(tasks[t].operation))
    /\ UNCHANGED <<config, handlers, patched, entry, setup, phase, group, display>>

RECURSIVE UntilFailure(_)
UntilFailure(results) ==
    IF results = <<>> THEN <<>>
    ELSE IF ~Head(results).success THEN <<Head(results)>>
    ELSE <<Head(results)>> \o UntilFailure(Tail(results))

\* A chunk whose results are dropped after the first failure.
ChunkResultsUntilFailure(chunk) ==
    UntilFailure([k \in 1..Cardinality(chunk) |->
        tasks[(CHOOSE lo \in chunk : \A x \in chunk : lo <= x) + k - 1].result])

\* A chunk whose results come in the order the tasks finished.
ChunkResultsAsCompleted(chunk) ==
    LET order == SelectSeq(finish_order, LAMBDA t : t \in chunk)
    IN  [k \in 1..Len(order) |-> tasks[order[k]].result]

\* Lines 330-349: the results of one chunk, in the chunk's order.
ChunkResults(chunk) ==
    [k \in 1..Cardinality(chunk) |->
        Gathered(tasks[(CHOOSE lo \in chunk : \A x \in chunk : lo <= x) + k - 1])]

ResultNotifications(results, operations, start_index, total) ==
    [k \in 1..Len(results) |->
        show_operation_result(results[k],
            IndexOf(operations, results[k].operation) + start_index, total)]

\* Lines 328-351: gather returns when every task of the chunk is done; the
\* chunk's results are appended and the next chunk is awaited.
GatherReturn ==
    /\ group.fn = "_execute_parallel"
    /\ group.pc = "gather"
    /\ LET n == Len(group.operations)
           chunk == ChunkIndices(n, group.i, config.execution.max_parallel)
           chunk_results == ChunkResults(chunk)
           next == group.i + config.execution.max_parallel
       IN  /\ \A t \in chunk : tasks[t].pc = "done"
           /\ group' = [group EXCEPT
                  !.results = @ \o chunk_results,
                  !.i = next,
                  !.pc = IF next >= n THEN "returned" ELSE "gather"]
           /\ display' = display \o
                  ResultNotifications(chunk_results, group.operations,
                                      group.start_index, group.total)
    /\ UNCHANGED <<config, handlers, patched, entry, setup, phase, tasks,
                   finish_order>>

----------------------------------------------------------------------------
(* run_phase (executor.py 135-234).                                        *)

\* The frames of run_full_setup and run_phase while they are not called.
NoVersion == "None"

NoSetup == [pc |-> "idle", version |-> NoVersion, i |-> 0, all_results |-> <<>>,
            completed_phases |-> {}, ran |-> <<>>]

NoPhaseConfig == Phase("", <<>>, <<>>, FALSE, FALSE, FALSE)

NoPhaseResult == PhaseResult(NoPhaseConfig, NoVersion, <<>>)

\* collected: for each group call that returned, the group's position in
\* phase.groups, the method called and the results the call returned.
NoPhase == [pc |-> "idle", phase |-> NoPhaseConfig, version |-> NoVersion, g |-> 0,
            all_results |-> <<>>, operation_index |-> 0, total_ops |-> 0,
            result |-> NoPhaseResult, exception |-> "None", collected |-> <<>>]

\* dict.get(key) on config.versions, a sequence of VersionConfig in the
\* dict's order; groups.get(name, []).
HasVersion(version) == \E k \in 1..Len(config.versions) :
                          config.versions[k].version = version

VersionConfig(version) ==
    config.versions[CHOOSE k \in 1..Len(config.versions) :
                        config.versions[k].version = version]

GroupOperationsOf(version_config, group_name) ==
    IF group_name \in DOMAIN version_config.groups
    THEN version_config.groups[group_name] ELSE <<>>

RECURSIVE SumLen(_, _)
SumLen(version_config, group_names) ==
    IF group_names = <<>> THEN 0
    ELSE Len(GroupOperationsOf(version_config, Head(group_names)))
         + SumLen(version_config, Tail(group_names))

\* A check that knows kubectl_restart only.
_is_group_parallelizable_unless_restart(operations) ==
    \A k \in 1..Len(operations) : operations[k].type # "kubectl_restart"

\* Lines 252-259
_is_group_parallelizable(operations) ==
    \A k \in 1..Len(operations) :
        operations[k].type \notin {"kubectl_restart", "kubectl_delete"}

\* Lines 185-188
should_parallel(phase_config, operations) ==
    phase_config.parallel_groups
    \/ (config.execution.parallel /\ _is_group_parallelizable(operations))

\* A call run_phase(phase, version).
PhaseCall(phase_config, version) ==
    [NoPhase EXCEPT !.pc = "start", !.phase = phase_config, !.version = version]

\* A run_phase without the early return.
HasNoGroupsNever(phase_config) == FALSE

\* Line 148: "if not phase_groups:"
HasNoGroups(phase_config) == phase_config.groups = <<>>

\* Lines 139-173: the version is resolved, a phase without groups returns an
\* empty PhaseResult, otherwise the operations are counted and the phase
\* start is shown.
RunPhaseStart ==
    /\ phase.pc = "start"
    /\ IF phase.version = NoVersion /\ config.versions = <<>>
       THEN /\ phase' = [phase EXCEPT !.pc = "raised", !.exception = "IndexError"]
            /\ UNCHANGED display
       ELSE LET version == IF phase.version = NoVersion
                           THEN config.versions[1].version ELSE phase.version
            IN  IF ~HasVersion(version)
                THEN /\ phase' = [phase EXCEPT !.pc = "raised", !.version = version,
                                       !.exception = "ValueError: Version not found"]
                     /\ UNCHANGED display
                ELSE IF HasNoGroups(phase.phase)
                THEN /\ phase' = [phase EXCEPT !.pc = "returned", !.version = version,
                           !.result = PhaseResult(phase.phase, version, <<>>)]
                     /\ display' = Append(display,
                           Notification("warning", phase.phase.name, 0, 0, TRUE))
                ELSE LET total_ops == SumLen(VersionConfig(version), phase.phase.groups)
                     IN  /\ phase' = [phase EXCEPT !.pc = "groups", !.version = version,
                                !.g = 1, !.total_ops = total_ops]
                         /\ display' = Append(display,
                                Notification("start_phase", phase.phase.name, 0,
                                             total_ops, TRUE))
    /\ UNCHANGED <<config, handlers, patched, entry, setup, group, tasks,
                   finish_order>>

\* A loop that ends at the first group the version lacks.
AfterMissingGroupBreak(g, groups) == "finish"

\* Lines 178-182: the "continue" after the warning takes the next group, if
\* there is one.
AfterMissingGroup(g, groups) == IF g = Len(groups) THEN "finish" ELSE "groups"

\* Lines 175-197: the next group of the phase is looked up; a group the
\* version lacks is passed over with a warning, any other is handed to
\* _execute_parallel or _execute_sequential.
PhaseNextGroup ==
    /\ phase.pc = "groups"
    /\ LET group_name == phase.phase.groups[phase.g]
           operations == GroupOperationsOf(VersionConfig(phase.version), group_name)
       IN  IF operations = <<>>
           THEN /\ phase' = [phase EXCEPT
                       !.g = @ + 1,
                       !.pc = AfterMissingGroup(phase.g, phase.phase.groups)]
                /\ display' = Append(display,
                       Notification("warning", group_name, 0, 0, TRUE))
                /\ UNCHANGED <<group, tasks, finish_order>>
           ELSE /\ phase' = [phase EXCEPT !.pc = "await_group"]
                /\ group' = GroupCall(IF should_parallel(phase.phase, operations)
                                      THEN "_execute_parallel"
                                      ELSE "_execute_sequential",
                                      operations, phase.operation_index,
                                      phase.total_ops)
                /\ tasks' = <<>>
                /\ finish_order' = <<>>
                /\ UNCHANGED display
    /\ UNCHANGED <<config, handlers, patched, entry, setup>>

\* A check that stops only for a failed operation whose fail_on_error is set.
ShouldStopPhaseOnFailOnError(results, phase_config) ==
    /\ \E k \in 1..Len(results) :
           ~results[k].success /\ results[k].operation.fail_on_error
    /\ ~phase_config.continue_on_error
    /\ ~config.execution.continue_on_error

\* Lines 203-208: the group had a failure and nothing says to continue.
ShouldStopPhase(results, phase_config) ==
    /\ \E k \in 1..Len(results) : ~results[k].success
    /\ ~phase_config.continue_on_error
    /\ ~config.execution.continue_on_error

\* An assignment where the code extends the list.
ExtendResultsByAssignment(all_results, results) == results

\* Line 199: "all_results.extend(results)"
ExtendResults(all_results, results) == all_results \o results

\* Lines 199-210: the group's results are added; the loop over the groups
\* breaks, with an error shown, or goes on.  An exception of the group call
\* passes through.
PhaseGroupReturn ==
    /\ phase.pc = "await_group"
    /\ group.pc \in {"returned", "raised"}
    /\ IF group.pc = "raised"
       THEN /\ phase' = [phase EXCEPT
                   !.pc = "raised",
                   !.exception = "ValueError: range() arg 3 must not be zero"]
            /\ UNCHANGED display
       ELSE LET stop == ShouldStopPhase(group.results, phase.phase)
            IN  /\ phase' = [phase EXCEPT
                       !.collected = Append(@, [g |-> phase.g, fn |-> group.fn,
                                                results |-> group.results]),
                       !.all_results = ExtendResults(@, group.results),
                       !.operation_index = @ + Len(group.operations),
                       !.g = @ + 1,
                       !.pc = IF stop \/ phase.g = Len(phase.phase.groups)
                              THEN "finish" ELSE "groups"]
                /\ display' = IF stop
                              THEN Append(display,
                                     Notification("error",
                                         phase.phase.groups[phase.g], 0, 0, FALSE))
                              ELSE display
    /\ group' = [group EXCEPT !.pc = "idle"]
    /\ UNCHANGED <<config, handlers, patched, entry, setup, tasks, finish_order>>

\* Lines 212-234: the PhaseResult is built and shown.
PhaseFinish ==
    /\ phase.pc = "finish"
    /\ LET phase_result == PhaseResult(phase.phase, phase.version, phase.all_results)
       IN  /\ phase' = [phase EXCEPT !.pc = "returned", !.result = phase_result]
           /\ display' = Append(display,
                  Notification("phase_summary", phase.phase.name, 0,
                               phase_result.total_operations,
                               is_successful(phase_result)))
    /\ UNCHANGED <<config, handlers, patched, entry, setup, group, tasks,
                   finish_order>>

----------------------------------------------------------------------------
(* run_phase_by_name (executor.py 236-250).                                *)

\* A lookup that sees enabled phases only.
FindPhaseEnabled(phases, phase_name) ==
    IF \E k \in 1..Len(phases) : phases[k].name = phase_name /\ phases[k].enabled
    THEN CHOOSE k \in 1..Len(phases) :
             /\ phases[k].name = phase_name /\ phases[k].enabled
             /\ \A j \in 1..(k - 1) :
                   ~(phases[j].name = phase_name /\ phases[j].enabled)
    ELSE 0

\* A lookup that falls back to the first configured phase.
FindPhaseOrFirst(phases, phase_name) ==
    IF \E k \in 1..Len(phases) : phases[k].name = phase_name
    THEN CHOOSE k \in 1..Len(phases) :
             /\ phases[k].name = phase_name
             /\ \A j \in 1..(k - 1) : phases[j].name # phase_name
    ELSE IF phases # <<>> THEN 1 ELSE 0

\* Lines 241-245: the position of the first phase of that name, 0 for none.
FindPhase(phases, phase_name) ==
    IF \E k \in 1..Len(phases) : phases[k].name = phase_name
    THEN CHOOSE k \in 1..Len(phases) :
             /\ phases[k].name = phase_name
             /\ \A j \in 1..(k - 1) : phases[j].name # phase_name
    ELSE 0

\* A call run_phase_by_name(phase_name, version), or a direct call of
\* run_phase (fn = "run_phase", nothing to look up).
EntryCall(fn, phase_name, version) ==
    [fn |-> fn, pc |-> IF fn = "run_phase_by_name" THEN "start" ELSE "await_phase",
     phase_name |-> phase_name, version |-> version,
     result |-> NoPhaseResult, exception |-> "None"]

\* Lines 240-250: the phase is looked up by name; none found raises, the
\* first found is handed to run_phase.
RunPhaseByName ==
    /\ entry.fn = "run_phase_by_name"
    /\ entry.pc = "start"
    /\ LET k == FindPhase(config.phases, entry.phase_name)
       IN  IF k = 0
           THEN /\ entry' = [entry EXCEPT !.pc = "raised",
                                 !.exception = "ValueError: Phase not found"]
                /\ UNCHANGED phase
           ELSE /\ entry' = [entry EXCEPT !.pc = "await_phase"]
                /\ phase' = PhaseCall(config.phases[k], entry.version)
    /\ UNCHANGED <<config, handlers, patched, setup, group, tasks, finish_order,
                   display>>

\* Line 250: what run_phase returned or raised is the caller's outcome.
RunPhaseReturn ==
    /\ entry.fn \in {"run_phase_by_name", "run_phase"}
    /\ entry.pc = "await_phase"
    /\ phase.pc \in {"returned", "raised"}
    /\ entry' = [entry EXCEPT !.pc = phase.pc, !.result = phase.result,
                              !.exception = phase.exception]
    /\ phase' = [phase EXCEPT !.pc = "idle"]
    /\ UNCHANGED <<config, handlers, patched, setup, group, tasks, finish_order,
                   display>>

----------------------------------------------------------------------------
(* run_full_setup (executor.py 90-133).                                    *)

\* A lookup that is satisfied as soon as one dependency has completed.
missing_deps_unless_any(phase_config, completed_phases) ==
    IF \E k \in 1..Len(phase_config.depends_on) :
           phase_config.depends_on[k] \in completed_phases
    THEN <<>>
    ELSE phase_config.depends_on

\* A lookup that also accepts a dependency declared anywhere in the phase
\* list, as a driver that sorted the phases by their dependencies would.
missing_deps_unless_declared(phase_config, completed_phases) ==
    SelectSeq(phase_config.depends_on,
              LAMBDA dep : /\ dep \notin completed_phases
                           /\ \A k \in 1..Len(config.phases) :
                                 config.phases[k].name # dep)

\* Lines 108-110
missing_deps(phase_config, completed_phases) ==
    SelectSeq(phase_config.depends_on, LAMBDA dep : dep \notin completed_phases)

\* A driver that stops at a failed phase whatever the global flag says.
ShouldStopSetupIgnoringGlobal(phase_result, phase_config) ==
    /\ ~is_successful(phase_result)
    /\ ~phase_config.continue_on_error

\* Lines 122-126
ShouldStopSetup(phase_result, phase_config) ==
    /\ ~is_successful(phase_result)
    /\ ~phase_config.continue_on_error
    /\ ~config.execution.continue_on_error

\* A driver that marks a phase completed only when its result is successful.
MarkCompletedIfSuccessful(completed_phases, phase_config, phase_result) ==
    IF is_successful(phase_result)
    THEN completed_phases \cup {phase_config.name}
    ELSE completed_phases

\* Line 119: "completed_phases.add(phase.name)", whatever the result.
MarkCompleted(completed_phases, phase_config, phase_result) ==
    completed_phases \cup {phase_config.name}

\* Lines 92-98: the version is resolved and the header printed.
RunFullSetupStart ==
    /\ setup.pc = "start"
    /\ IF setup.version = NoVersion /\ config.versions = <<>>
       THEN /\ setup' = [setup EXCEPT !.pc = "raised"]
            /\ UNCHANGED display
       ELSE /\ setup' = [setup EXCEPT
                   !.version = IF setup.version = NoVersion
                               THEN config.versions[1].version ELSE setup.version,
                   !.i = 1,
                   !.pc = IF config.phases = <<>> THEN "returned" ELSE "loop"]
            /\ display' = Append(display, Notification("header", "", 0, 0, TRUE))
    /\ UNCHANGED <<config, handlers, patched, entry, phase, group, tasks,
                   finish_order>>

\* A driver that takes every phase for enabled.
IsDisabledNever(phase_config) == FALSE

\* Line 102: "if not phase.enabled"
IsDisabled(phase_config) == ~phase_config.enabled

\* A skip that marks the phase completed all the same.
CompletedAfterSkipMarked(completed_phases, phase_config) ==
    completed_phases \cup {phase_config.name}

\* Lines 102-104 and 111-115: "continue" leaves completed_phases as it is.
CompletedAfterSkip(completed_phases, phase_config) == completed_phases

\* Lines 101-117: a disabled phase and a phase with a missing dependency are
\* passed over; any other is run.
SetupNextPhase ==
    /\ setup.pc = "loop"
    /\ LET phase_config == config.phases[setup.i]
           skip == \/ IsDisabled(phase_config)
                   \/ /\ phase_config.depends_on # <<>>
                      /\ missing_deps(phase_config, setup.completed_phases) # <<>>
       IN  IF skip
           THEN /\ setup' = [setup EXCEPT
                       !.completed_phases = CompletedAfterSkip(@, phase_config),
                       !.i = @ + 1,
                       !.pc = IF setup.i = Len(config.phases)
                              THEN "returned" ELSE "loop"]
                /\ display' = Append(display,
                       Notification(IF phase_config.enabled THEN "warning" ELSE "info",
                                    phase_config.name, 0, 0, TRUE))
                /\ UNCHANGED phase
           ELSE /\ setup' = [setup EXCEPT !.pc = "await_phase",
                                          !.ran = Append(@, setup.i)]
                /\ phase' = PhaseCall(phase_config, setup.version)
                /\ UNCHANGED display
    /\ UNCHANGED <<config, handlers, patched, entry, group, tasks, finish_order>>

\* Lines 117-128: the phase's result is appended and its name marked
\* completed; the loop over the phases breaks or goes on.
SetupPhaseReturn ==
    /\ setup.pc = "await_phase"
    /\ phase.pc \in {"returned", "raised"}
    /\ IF phase.pc = "raised"
       THEN /\ setup' = [setup EXCEPT !.pc = "raised"]
            /\ UNCHANGED display
       ELSE LET phase_config == config.phases[setup.i]
                stop == ShouldStopSetup(phase.result, phase_config)
            IN  /\ setup' = [setup EXCEPT
                       !.all_results = Append(@, phase.result),
                       !.completed_phases =
                           MarkCompleted(@, phase_config, phase.result),
                       !.i = @ + 1,
                       !.pc = IF stop \/ setup.i = Len(config.phases)
                              THEN "returned" ELSE "loop"]
                /\ display' = IF stop
                              THEN Append(display,
                                     Notification("error", phase_config.name, 0, 0,
                                                  FALSE))
                              ELSE display
    /\ phase' = [phase EXCEPT !.pc = "idle"]
    /\ UNCHANGED <<config, handlers, patched, entry, group, tasks, finish_order>>

----------------------------------------------------------------------------
(* Configurations and calls.                                               *)

\* ExecutionConfig's defaults (models.py 147-153)
DefaultExecution ==
    [dry_run |-> FALSE, parallel |-> FALSE, max_parallel |-> 5,
     continue_on_error |-> FALSE]

\* Orchestrator.__init__ (executor.py 25-40): the injected registry, or a new
\* one, with the default handlers registered over it.
InjectedRegistries ==
    {EmptyRegistry, register(EmptyRegistry, "custom", "CallerHandler")}

Patches == [evaluate_condition : BOOLEAN, run_test_command : BOOLEAN,
            execute_operation : {"real"}]

\* The operations given to a direct call of _execute_operation.
SingleOperations ==
    {Operation("op", type, retry_count, skip_if, test_command, fail_on_error) :
        type \in {"script_exec", "custom"},
        retry_count \in 0..MaxRetry,
        skip_if \in {None, <<"cond">>},
        test_command \in {None, <<"test">>},
        fail_on_error \in BOOLEAN}

\* A call of _execute_operation(operation) on a constructed Orchestrator.
InitOperation ==
    /\ config = [phases |-> <<>>, versions |-> <<>>, execution |-> DefaultExecution]
    /\ \E injected \in InjectedRegistries :
           handlers = _register_default_handlers(injected)
    /\ patched \in Patches
    /\ entry = [fn |-> "_execute_operation"]
    /\ setup = NoSetup
    /\ phase = NoPhase
    /\ group = NoFrame
    /\ \E operation \in SingleOperations :
           tasks = <<NewTask(operation, "_execute_operation")>>
    /\ finish_order = <<>>
    /\ display = <<>>

NextOperation ==
    \E t \in 1..MaxOps :
        \/ ExecuteOperationStart(t)
        \/ HandlerExecute(t)
        \/ RetrySleep(t)

SpecOperation == InitOperation /\ [][NextOperation]_vars

RECURSIVE Lists(_, _)
Lists(S, n) ==
    IF n = 0 THEN {<<>>}
    ELSE LET shorter == Lists(S, n - 1)
         IN  shorter \cup {Append(l, x) : l \in {m \in shorter : Len(m) = n - 1}, x \in S}

\* The operations of the groups given to _execute_sequential: "a" has a
\* registered handler and no retry, "b" has one retry and a skip_if, "c" is
\* of a type without a registered handler; each stops the sequence on
\* failure or not.
SequentialOperations ==
    UNION {{Operation("a", "script_exec", 0, None, None, fail_on_error),
            Operation("b", "script_exec", 1, <<"cond">>, None, fail_on_error),
            Operation("c", "custom", 0, None, None, fail_on_error)} :
           fail_on_error \in BOOLEAN}

\* A call of _execute_sequential(operations).
InitSequential ==
    /\ \E dry_run \in BOOLEAN :
           config = [phases |-> <<>>, versions |-> <<>>,
                     execution |-> [DefaultExecution EXCEPT !.dry_run = dry_run]]
    /\ handlers = _register_default_handlers(EmptyRegistry)
    /\ patched = Unpatched
    /\ entry = [fn |-> "_execute_sequential"]
    /\ \E operations \in Lists(SequentialOperations, MaxOps) :
           group = GroupCall("_execute_sequential", operations, 0, 0)
    /\ setup = NoSetup
    /\ phase = NoPhase
    /\ tasks = <<>>
    /\ finish_order = <<>>
    /\ display = <<>>

NextSequential ==
    \/ SequentialNext
    \/ SequentialResume
    \/ \E t \in 1..MaxOps :
        \/ ExecuteOperationStart(t)
        \/ HandlerExecute(t)
        \/ RetrySleep(t)

SpecSequential == InitSequential /\ [][NextSequential]_vars

\* The operations of the groups given to _execute_parallel; a group can
\* hold equal operations.  "a" has no retry and fail_on_error set, "b" has
\* one retry, a skip_if and fail_on_error unset.
ParallelOperations ==
    {Operation("a", "script_exec", 0, None, None, TRUE),
     Operation("b", "script_exec", 1, <<"cond">>, None, FALSE)}

\* The groups given to _execute_parallel: at most MaxOps operations, of
\* which at most one has a retry.
ParallelGroups ==
    {operations \in Lists(ParallelOperations, MaxOps) :
        Cardinality({k \in 1..Len(operations) : operations[k].retry_count > 0}) <= 1}

\* A call of _execute_parallel(operations).
InitParallel ==
    /\ \E dry_run \in BOOLEAN, max_parallel \in -1..MaxOps :
           config = [phases |-> <<>>, versions |-> <<>>,
                     execution |-> [DefaultExecution EXCEPT
                                       !.dry_run = dry_run,
                                       !.max_parallel = max_parallel]]
    /\ handlers = _register_default_handlers(EmptyRegistry)
    /\ patched = Unpatched
    /\ entry = [fn |-> "_execute_parallel"]
    /\ \E operations \in ParallelGroups :
           group = GroupCall("_execute_parallel", operations, 0, 0)
    /\ setup = NoSetup
    /\ phase = NoPhase
    /\ tasks = <<>>
    /\ finish_order = <<>>
    /\ display = <<>>

NextParallel ==
    \/ ParallelStart
    \/ GatherReturn
    \/ \E t \in 1..MaxOps :
        \/ ExecuteOperationStart(t)
        \/ HandlerExecute(t)
        \/ RetrySleep(t)
        \/ DryRunWrapper(t)

SpecParallel == InitParallel /\ [][NextParallel]_vars

\* A call of _execute_sequential or of _execute_parallel.
InitGroup == InitSequential \/ InitParallel

NextGroup ==
    \/ SequentialNext
    \/ SequentialResume
    \/ ParallelStart
    \/ GatherReturn
    \/ \E t \in 1..MaxOps :
        \/ ExecuteOperationStart(t)
        \/ HandlerExecute(t)
        \/ RetrySleep(t)
        \/ DryRunWrapper(t)

SpecGroup == InitGroup /\ [][NextGroup]_vars

----------------------------------------------------------------------------
(* Properties of _execute_operation, checked under SpecOperation.          *)

Done(t) == t \in DOMAIN tasks /\ tasks[t].pc = "done"

\* The task reached the retry loop: it was not skipped and its type has a
\* registered handler.
ReachedLoop(t) ==
    /\ tasks[t].pc # "created"
    /\ ~(tasks[t].operation.skip_if # None /\ patched.evaluate_condition)
    /\ handlers[tasks[t].operation.type] # NoHandler

\* C1: an operation with retry_count = N >= 0 whose handler raised on every
\* call ends after exactly N+1 handler calls with one failed result whose
\* retries_used is N+1.
C1_RetryCeiling ==
    \A t \in DOMAIN tasks :
        (Done(t) /\ ReachedLoop(t) /\ tasks[t].operation.retry_count >= 0
                 /\ tasks[t].raises = tasks[t].calls)
        => /\ tasks[t].calls = tasks[t].operation.retry_count + 1
           /\ tasks[t].result.success = FALSE
           /\ tasks[t].result.retries_used = tasks[t].operation.retry_count + 1
           /\ Len(SelectSeq(finish_order, LAMBDA x : x = t)) = 1

C1_Witness ==
    \E t \in DOMAIN tasks :
        /\ Done(t) /\ ReachedLoop(t)
        /\ tasks[t].operation.retry_count = MaxRetry
        /\ tasks[t].raises = tasks[t].calls
        /\ tasks[t].calls = MaxRetry + 1
        /\ tasks[t].sleeps = MaxRetry

\* C7: when skip_if is set and the condition evaluates true, the handler is
\* neither looked up nor called, nothing is retried, and the result is a
\* success of duration 0 whose output says the operation was skipped.
C7_SkipShortCircuits ==
    \A t \in DOMAIN tasks :
        (tasks[t].operation.skip_if # None /\ patched.evaluate_condition)
        => /\ tasks[t].pc \in {"created", "done"}
           /\ tasks[t].calls = 0 /\ tasks[t].lookups = 0
           /\ tasks[t].retries = 0 /\ tasks[t].sleeps = 0
           /\ Done(t) => /\ tasks[t].result.success = TRUE
                         /\ tasks[t].result.duration = ZeroDuration
                         /\ tasks[t].result.output =
                                <<"Operation skipped due to condition">>
                         /\ tasks[t].result.operation = tasks[t].operation
                         /\ tasks[t].conds = 1

C7_Witness ==
    \E t \in DOMAIN tasks :
        /\ Done(t)
        /\ tasks[t].operation.skip_if # None /\ patched.evaluate_condition
        /\ handlers[tasks[t].operation.type] # NoHandler
        /\ tasks[t].operation.retry_count > 0

\* C8: when no handler is registered for the operation's type (and the
\* operation is not skipped), the result comes at once: failed, duration 0,
\* retries_used 0, an error naming the type, and no attempt whatever
\* retry_count is.
C8_NoHandlerFailsAtOnce ==
    \A t \in DOMAIN tasks :
        (/\ handlers[tasks[t].operation.type] = NoHandler
         /\ ~(tasks[t].operation.skip_if # None /\ patched.evaluate_condition))
        => /\ tasks[t].pc \in {"created", "done"}
           /\ tasks[t].calls = 0 /\ tasks[t].retries = 0 /\ tasks[t].sleeps = 0
           /\ Done(t) => /\ tasks[t].result.success = FALSE
                         /\ tasks[t].result.duration = ZeroDuration
                         /\ tasks[t].result.retries_used = 0
                         /\ tasks[t].result.error =
                                <<"No handler registered for operation type: ",
                                  tasks[t].operation.type>>
                         /\ tasks[t].lookups = 1

C8_Witness ==
    \E t \in DOMAIN tasks :
        /\ Done(t)
        /\ handlers[tasks[t].operation.type] = NoHandler
        /\ tasks[t].operation.retry_count = MaxRetry
        /\ tasks[t].result.success = FALSE

\* C15: a failure the handler reports by returning a result with
\* success=false is absorbed into the retry loop like a raised one: the
\* operation is attempted again while attempts remain, so a failed result is
\* returned only after retry_count + 1 handler calls.
C15_ReturnedFailureRetried ==
    \A t \in DOMAIN tasks :
        (Done(t) /\ ReachedLoop(t) /\ ~tasks[t].result.success)
        => tasks[t].calls = tasks[t].operation.retry_count + 1

\* C16: when test_command is set and the test command returns false, an
\* attempt whose handler call succeeded counts as a failed attempt like a
\* raised error (message "Test command failed") and is retried while attempts
\* remain; the operation never ends in a success, and when the test command
\* failed on every attempt the result is failed with that message and
\* retries_used = retry_count + 1.
C16_PostCheckFailureFailsAttempt ==
    \A t \in DOMAIN tasks :
        (/\ ReachedLoop(t)
         /\ tasks[t].operation.test_command # None
         /\ ~patched.run_test_command)
        => /\ tasks[t].retries = tasks[t].raises + tasks[t].tests
           /\ (tasks[t].pc = "sleep" /\ tasks[t].tests > 0 /\ tasks[t].raises = 0)
              => tasks[t].last_error = <<"Test command failed">>
           /\ Done(t) => ~tasks[t].result.success
           /\ (Done(t) /\ tasks[t].tests = tasks[t].calls)
              => /\ tasks[t].calls = tasks[t].operation.retry_count + 1
                 /\ tasks[t].sleeps = tasks[t].operation.retry_count
                 /\ tasks[t].result.error = <<"Test command failed">>
                 /\ tasks[t].result.retries_used =
                        tasks[t].operation.retry_count + 1

C16_Witness ==
    \E t \in DOMAIN tasks :
        /\ Done(t) /\ ReachedLoop(t)
        /\ tasks[t].operation.test_command # None
        /\ ~patched.run_test_command
        /\ tasks[t].operation.retry_count = MaxRetry
        /\ tasks[t].tests = MaxRetry + 1
        /\ tasks[t].calls = MaxRetry + 1
        /\ tasks[t].result.error = <<"Test command failed">>

\* C17: an operation that ends in a success after its handler raised on the
\* first k calls made exactly k+1 handler calls, k <= retry_count, and its
\* result is the handler's with retries_used = k (0 when the first call
\* succeeded).
C17_RetriesUsedOnSuccess ==
    \A t \in DOMAIN tasks :
        (/\ Done(t) /\ ReachedLoop(t)
         /\ tasks[t].result.success
         /\ tasks[t].raises = tasks[t].calls - 1)
        => /\ tasks[t].raises <= tasks[t].operation.retry_count
           /\ tasks[t].sleeps = tasks[t].raises
           /\ tasks[t].result.output = <<"handler output">>
           /\ tasks[t].result.retries_used = tasks[t].raises
           /\ tasks[t].calls = 1 => tasks[t].result.retries_used = 0

C17_Witness ==
    \E t \in DOMAIN tasks :
        /\ Done(t) /\ ReachedLoop(t)
        /\ tasks[t].result.success
        /\ tasks[t].operation.retry_count = MaxRetry
        /\ tasks[t].raises = MaxRetry
        /\ tasks[t].calls = MaxRetry + 1
        /\ tasks[t].result.retries_used = MaxRetry

\* An error that is neither None nor an empty text.
Populated(error) == error # None /\ error # <<>> /\ error # <<"">>

\* The result comes from the end of the retry loop (lines 405-413).
Exhausted(t) == tasks[t].retries > tasks[t].operation.retry_count

\* C18: every failed result that _execute_operation returns without having
\* exhausted the retry loop (a failure the handler returned, a missing
\* handler) has a populated error.
C18_FailureHasError ==
    \A t \in DOMAIN tasks :
        (Done(t) /\ ~tasks[t].result.success /\ ~Exhausted(t))
        => Populated(tasks[t].result.error)

\* The attempts of task t that failed: the handler raised or the post-check
\* failed (each adds one to retries).
FailedAttempts(t) == tasks[t].retries

\* The sleeps task t has begun.
SleepsBegun(t) == tasks[t].sleeps + IF tasks[t].pc = "sleep" THEN 1 ELSE 0

\* C33: the retry_delay sleep happens only between two attempts.  A task
\* sleeps only after a failed attempt that another attempt follows; every
\* attempt but the first comes right after a sleep; a finished retry loop of
\* m >= 1 attempts holds exactly m - 1 sleeps, so none follows the last
\* failed attempt.
C33_SleepOnlyBetweenAttempts ==
    \A t \in DOMAIN tasks :
        /\ tasks[t].pc = "sleep"
           => /\ tasks[t].retries <= tasks[t].operation.retry_count
              /\ FailedAttempts(t) = tasks[t].calls
              /\ SleepsBegun(t) = tasks[t].calls
        /\ tasks[t].pc = "call" => tasks[t].sleeps = tasks[t].calls
        /\ (Done(t) /\ tasks[t].calls >= 1)
           => tasks[t].sleeps = tasks[t].calls - 1
        /\ (Done(t) /\ tasks[t].calls = 0) => tasks[t].sleeps = 0

C33_Witness ==
    \E t \in DOMAIN tasks :
        /\ Done(t)
        /\ tasks[t].operation.retry_count = MaxRetry
        /\ tasks[t].calls = MaxRetry + 1
        /\ tasks[t].sleeps = MaxRetry
        /\ tasks[t].tests >= 1
        /\ ~tasks[t].result.success

\* C34: whatever the handler does on each call (raise, return a failure,
\* return a success), an operation with retry_count >= 0 has at most
\* retry_count + 1 handler calls, its result has
\* 0 <= retries_used <= retry_count + 1, and retries_used = retry_count + 1
\* only in an unsuccessful result.
C34_AttemptsAndRetriesBounded ==
    \A t \in DOMAIN tasks :
        tasks[t].operation.retry_count >= 0
        => /\ tasks[t].calls <= tasks[t].operation.retry_count + 1
           /\ Done(t)
              => /\ tasks[t].result.retries_used >= 0
                 /\ tasks[t].result.retries_used
                        <= tasks[t].operation.retry_count + 1
                 /\ tasks[t].result.retries_used
                        = tasks[t].operation.retry_count + 1
                    => ~tasks[t].result.success

C34_Witness ==
    \E t \in DOMAIN tasks :
        /\ Done(t)
        /\ tasks[t].operation.retry_count = MaxRetry
        /\ tasks[t].calls = MaxRetry + 1
        /\ tasks[t].raises = 1
        /\ tasks[t].tests = 1
        /\ tasks[t].result.retries_used = MaxRetry
        /\ ~tasks[t].result.success

----------------------------------------------------------------------------
(* Properties of the group paths.                                          *)

InFlight == {t \in DOMAIN tasks : tasks[t].pc \in {"call", "sleep"}}

\* C2: while _execute_parallel runs with max_parallel >= 1, at most
\* max_parallel operations of the group are in flight (started and not yet
\* finished).
C2_MaxParallelCeiling ==
    (group.fn = "_execute_parallel" /\ config.execution.max_parallel >= 1)
    => Cardinality(InFlight) <= config.execution.max_parallel

\* The chunk the caller is waiting for.
CurrentChunk ==
    ChunkIndices(Len(group.operations), group.i, config.execution.max_parallel)

\* C27: while _execute_parallel waits for a chunk whose operations have all
\* started and of which one has not finished, no operation of a later chunk
\* has started executing.
C27_ChunksOneAfterAnother ==
    (/\ group.fn = "_execute_parallel"
     /\ group.pc = "gather"
     /\ config.execution.max_parallel >= 1
     /\ \A u \in CurrentChunk : tasks[u].pc # "created"
     /\ \E u \in CurrentChunk : tasks[u].pc # "done")
    => \A t \in DOMAIN tasks :
          t > group.i + config.execution.max_parallel => tasks[t].pc = "created"

Started == SelectSeq(display, LAMBDA n : n.event = "operation_start")

\* C3: _execute_sequential stops right after operation i exactly when that
\* operation's result is unsuccessful and its fail_on_error is true; what it
\* returns is the results of operations 1..i in order, and no later operation
\* was started.
C3_SequentialStop ==
    group.fn = "_execute_sequential"
    => LET n == Len(group.results)
       IN  /\ n <= Len(group.operations)
           /\ \A k \in 1..n :
                /\ group.results[k].operation = group.operations[k]
                /\ ~DryRun => group.results[k] = tasks[k].result
                /\ (~group.results[k].success /\ group.operations[k].fail_on_error)
                   => (k = n /\ group.pc = "returned")
           /\ group.pc = "returned"
              => /\ n = Len(group.operations)
                    \/ (n >= 1 /\ ~group.results[n].success
                               /\ group.operations[n].fail_on_error)
                 /\ Len(Started) = n
                 /\ Len(tasks) = IF DryRun THEN 0 ELSE n

C3_Witness ==
    /\ group.fn = "_execute_sequential"
    /\ group.pc = "returned"
    /\ Len(group.operations) = 3
    /\ Len(group.results) = 2
    /\ ~group.results[1].success /\ ~group.operations[1].fail_on_error
    /\ ~group.results[2].success /\ group.operations[2].fail_on_error

\* C28: _execute_sequential handles its operations in list order and one at
\* a time: the notifications alternate start, result, start, result, ... for
\* operations 1, 2, ... with index start_index + position; operation k is
\* executed only after its start notification, its result notification is
\* sent only after its execution has ended, and operation k + 1 is started
\* only after the result notification of operation k.
C28_SequentialStrictOrder ==
    group.fn = "_execute_sequential"
    => LET awaiting == IF group.pc = "await_op" THEN 1 ELSE 0
       IN  /\ Len(display) = 2 * Len(group.results) + awaiting
           /\ \A k \in 1..Len(display) :
                 LET pos == (k + 1) \div 2
                 IN  /\ display[k].event = IF k % 2 = 1 THEN "operation_start"
                                           ELSE "operation_result"
                     /\ display[k].name = group.operations[pos].description
                     /\ display[k].index = group.start_index + pos
                     /\ k % 2 = 0 => display[k].success = group.results[pos].success
           /\ \A k \in 1..Len(group.results) :
                 group.results[k].operation = group.operations[k]
           /\ IF DryRun
              THEN tasks = <<>>
              ELSE /\ Len(tasks) = Len(group.results) + awaiting
                   /\ \A k \in DOMAIN tasks :
                         /\ tasks[k].operation = group.operations[k]
                         /\ Len(display) >= 2 * k - 1
                         /\ k < Len(tasks) => Len(display) >= 2 * k
                         /\ Len(display) >= 2 * k
                            => Done(k) /\ group.results[k] = tasks[k].result
                         /\ ~Done(k) => k = Len(tasks)

C28_Witness ==
    /\ group.fn = "_execute_sequential"
    /\ group.pc = "returned"
    /\ ~DryRun
    /\ Len(group.results) = 3
    /\ Len(display) = 6
    /\ \E k \in DOMAIN tasks : tasks[k].calls > 1

\* C4: _execute_parallel with max_parallel >= 1 returns one result per
\* operation of the group, whichever operations failed and whatever their
\* fail_on_error.
C4_ParallelNoAbort ==
    (/\ group.fn = "_execute_parallel"
     /\ group.pc = "returned"
     /\ config.execution.max_parallel >= 1)
    => /\ Len(group.results) = Len(group.operations)
       /\ \A k \in 1..Len(group.operations) :
            \E j \in 1..Len(group.results) : group.results[j] = tasks[k].result

C4_Witness ==
    /\ group.fn = "_execute_parallel"
    /\ group.pc = "returned"
    /\ config.execution.max_parallel = 2
    /\ Len(group.operations) = 3
    /\ ~group.results[1].success /\ group.operations[1].fail_on_error
    /\ group.results[2].success
    /\ ~group.results[3].success

\* C5: in _execute_parallel the k-th result is the result of the k-th
\* operation of the input list, for every order in which the tasks finish.
C5_ParallelOrder ==
    group.fn = "_execute_parallel"
    => \A k \in 1..Len(group.results) :
          /\ k <= Len(group.operations)
          /\ group.results[k].operation = group.operations[k]
          /\ group.results[k] = tasks[k].result

C5_Witness ==
    /\ group.fn = "_execute_parallel"
    /\ group.pc = "returned"
    /\ config.execution.max_parallel = 2
    /\ Len(group.results) = 3
    /\ finish_order = <<3, 2, 1>>
    /\ group.operations[1] # group.operations[2]
    /\ group.operations[2] # group.operations[3]
    /\ group.results[1].success /\ ~group.results[2].success

ResultsShown == SelectSeq(display, LAMBDA n : n.event = "operation_result")

\* C38: in _execute_parallel the result notification of the k-th operation
\* of the input list carries the index start_index + k, so every index in
\* start_index + 1 .. start_index + n is reported once.
C38_ResultIndexIsOwn ==
    group.fn = "_execute_parallel"
    => /\ Len(ResultsShown) = Len(group.results)
       /\ \A k \in 1..Len(ResultsShown) :
             ResultsShown[k].index = group.start_index + k

DryRunShape(result, operation) ==
    /\ result.operation = operation
    /\ result.success = TRUE
    /\ result.duration = ZeroDuration
    /\ result.output = <<"[DRY RUN] Would execute: ", operation.description>>

\* C6: in a dry run, on the sequential and on the parallel path, no
\* skip condition is evaluated, no handler is looked up or called and nothing
\* is retried; every result is a success of duration 0 whose output is
\* "[DRY RUN] Would execute: <description>", and the call returns one such
\* result per operation (on the parallel path when max_parallel >= 1).
C6_DryRunPurity ==
    config.execution.dry_run
    => /\ \A t \in DOMAIN tasks :
            /\ tasks[t].pc \in {"created", "done"}
            /\ tasks[t].conds = 0 /\ tasks[t].lookups = 0 /\ tasks[t].calls = 0
            /\ tasks[t].retries = 0 /\ tasks[t].sleeps = 0
            /\ Done(t) => DryRunShape(tasks[t].result, tasks[t].operation)
       /\ \A k \in 1..Len(group.results) :
            DryRunShape(group.results[k], group.operations[k])
       /\ (/\ group.pc = "returned"
           /\ group.fn = "_execute_parallel" => config.execution.max_parallel >= 1)
          => Len(group.results) = Len(group.operations)

C6_Witness ==
    /\ config.execution.dry_run
    /\ group.fn = "_execute_parallel"
    /\ group.pc = "returned"
    /\ config.execution.max_parallel = 2
    /\ Len(group.results) = 3
    /\ \E k \in 1..3 : group.operations[k].skip_if # None
    /\ \E k \in 1..3 : group.operations[k].retry_count > 0

----------------------------------------------------------------------------
(* A call of run_full_setup.                                               *)

\* The version the full setups run: one group of two operations, one of a
\* type with a registered handler and one of type skip, which has none.
SetupVersions ==
    <<[version |-> "v1",
       groups |-> [g \in {"g1"} |->
           <<Operation("a", "script_exec", 1, None, None, FALSE),
             Operation("s", "skip", 0, None, None, FALSE)>>]]>>

PhaseNames == <<"A", "B", "C", "D">>

\* What a phase can depend on: nothing, the first phase, the second phase,
\* or both.
DependsOn == {<<>>, <<"A">>, <<"B">>, <<"A", "B">>}

\* The phase lists: the k-th phase is named PhaseNames[k].
PhaseSettings == [enabled : BOOLEAN, depends_on : DependsOn,
                  continue_on_error : BOOLEAN]

PhaseLists ==
    {[k \in 1..Len(l) |->
        Phase(PhaseNames[k], <<"g1">>, l[k].depends_on, l[k].continue_on_error,
              FALSE, l[k].enabled)] : l \in Lists(PhaseSettings, MaxPhases)}

InitSetup ==
    /\ \E phases \in PhaseLists,
          dry_run \in BOOLEAN, parallel \in BOOLEAN, continue_on_error \in BOOLEAN :
           config = [phases |-> phases, versions |-> SetupVersions,
                     execution |-> [DefaultExecution EXCEPT
                                       !.dry_run = dry_run,
                                       !.parallel = parallel,
                                       !.continue_on_error = continue_on_error]]
    /\ handlers = _register_default_handlers(EmptyRegistry)
    /\ patched = Unpatched
    /\ entry = [fn |-> "run_full_setup"]
    /\ setup = [NoSetup EXCEPT !.pc = "start"]
    /\ phase = NoPhase
    /\ group = NoFrame
    /\ tasks = <<>>
    /\ finish_order = <<>>
    /\ display = <<>>

NextSetup ==
    \/ RunFullSetupStart
    \/ SetupNextPhase
    \/ SetupPhaseReturn
    \/ RunPhaseStart
    \/ PhaseNextGroup
    \/ PhaseGroupReturn
    \/ PhaseFinish
    \/ SequentialNext
    \/ SequentialResume
    \/ ParallelStart
    \/ GatherReturn
    \/ \E t \in 1..MaxOps :
        \/ ExecuteOperationStart(t)
        \/ HandlerExecute(t)
        \/ RetrySleep(t)
        \/ DryRunWrapper(t)

SpecSetup == InitSetup /\ [][NextSetup]_vars

----------------------------------------------------------------------------
(* Properties of run_full_setup, checked under SpecSetup.                  *)

\* ran: the positions, in config.phases, of the phases run_phase was called
\* for, in the order of the calls.
RanBefore(i) ==
    {config.phases[setup.ran[j]].name : j \in {x \in 1..Len(setup.ran) : setup.ran[x] < i}}

DependenciesRan(i) ==
    \A k \in 1..Len(config.phases[i].depends_on) :
        config.phases[i].depends_on[k] \in RanBefore(i)

\* The phases the loop has gone past.
Visited == {i \in 1..Len(config.phases) :
               i < setup.i \/ (i = setup.i /\ setup.pc = "await_phase")}

FailedAndNoContinue(j) ==
    /\ setup.all_results[j].failed_operations # 0
    /\ ~config.phases[setup.ran[j]].continue_on_error
    /\ ~config.execution.continue_on_error

\* C10: run_full_setup stops at the first phase whose result is not
\* successful when neither the phase's nor the global continue_on_error is
\* set: that result is the last one returned and no later phase is run;
\* after any other phase that ran the loop goes on to the next phase.
C10_StopOnFailedPhase ==
    entry.fn = "run_full_setup"
    => /\ Len(setup.all_results) <= Len(setup.ran)
       /\ \A j \in 1..Len(setup.all_results) :
            /\ setup.all_results[j].phase_name = config.phases[setup.ran[j]].name
            /\ FailedAndNoContinue(j)
               => /\ setup.pc = "returned"
                  /\ j = Len(setup.all_results)
                  /\ j = Len(setup.ran)
                  /\ setup.i = setup.ran[j] + 1
            /\ (~FailedAndNoContinue(j) /\ setup.ran[j] < Len(config.phases))
               => ~(setup.pc = "returned" /\ setup.i = setup.ran[j] + 1)

C10_Witness ==
    /\ entry.fn = "run_full_setup"
    /\ setup.pc = "returned"
    /\ Len(config.phases) = 2
    /\ config.phases[2].enabled
    /\ config.phases[2].depends_on = <<>>
    /\ setup.ran = <<1>>
    /\ Len(setup.all_results) = 1
    /\ FailedAndNoContinue(1)

HasRun(i) == \E j \in 1..Len(setup.ran) : setup.ran[j] = i

C14_AggregateBound ==
    phase.pc = "returned"
    => /\ phase.result.successful_operations + phase.result.failed_operations
             + phase.result.skipped_operations
          <= phase.result.total_operations
       /\ phase.result.total_operations = 0
          => success_rate(phase.result) = [num |-> 100, den |-> 1]

\* C26: in run_full_setup a phase with enabled=false is never handed to
\* run_phase, adds no PhaseResult to the list and is not added to the set
\* of completed phases.
C26_DisabledPhaseNotRun ==
    entry.fn = "run_full_setup"
    => \A i \in 1..Len(config.phases) :
          ~config.phases[i].enabled
          => /\ ~HasRun(i)
             /\ phase.phase # config.phases[i]
             /\ config.phases[i].name \notin setup.completed_phases
             /\ \A j \in 1..Len(setup.all_results) :
                   /\ setup.all_results[j].phase_name # config.phases[i].name
                   /\ setup.all_results[j].phase_config # config.phases[i]

C26_Witness ==
    /\ entry.fn = "run_full_setup"
    /\ setup.pc = "returned"
    /\ Len(config.phases) = 2
    /\ ~config.phases[1].enabled
    /\ config.phases[1].depends_on = <<>>
    /\ setup.ran = <<2>>
    /\ Len(setup.all_results) = 1
    /\ setup.completed_phases = {config.phases[2].name}

\* C32: no step of run_full_setup, and of the run_phase calls it makes,
\* changes the configuration (the phase list, the phases, the versions'
\* group maps, the operations, the execution settings) or the entries of
\* the handler registry.
C32_ConfigurationUnchanged ==
    [][config' = config /\ handlers' = handlers]_vars

C32_Witness ==
    /\ entry.fn = "run_full_setup"
    /\ setup.pc = "returned"
    /\ Len(setup.all_results) = 2
    /\ ~DryRun
    /\ \E t \in DOMAIN tasks : tasks[t].calls = 2 /\ tasks[t].lookups = 1
    /\ handlers = _register_default_handlers(EmptyRegistry)
    /\ config.versions = SetupVersions

\* A full setup in which every step that can be taken is taken in the end:
\* the event loop runs every coroutine that is ready, and every handler call
\* and every sleep returns in finite time.
FairPhaseLists ==
    {[k \in 1..Len(l) |->
        Phase(PhaseNames[k], <<"g1">>, l[k].depends_on, FALSE, FALSE, l[k].enabled)] :
     l \in Lists([enabled : BOOLEAN, depends_on : {<<>>, <<"A">>}], MaxPhases)}

\* The full setups of the fair specification: max_parallel is 1 (the group
\* of two operations runs in two chunks) or 5.
InitSetupFair ==
    /\ \E phases \in FairPhaseLists, max_parallel \in {1, 5},
          dry_run \in BOOLEAN, parallel \in BOOLEAN, continue_on_error \in BOOLEAN :
           config = [phases |-> phases, versions |-> SetupVersions,
                     execution |-> [DefaultExecution EXCEPT
                                       !.dry_run = dry_run,
                                       !.parallel = parallel,
                                       !.max_parallel = max_parallel,
                                       !.continue_on_error = continue_on_error]]
    /\ handlers = _register_default_handlers(EmptyRegistry)
    /\ patched = Unpatched
    /\ entry = [fn |-> "run_full_setup"]
    /\ setup = [NoSetup EXCEPT !.pc = "start"]
    /\ phase = NoPhase
    /\ group = NoFrame
    /\ tasks = <<>>
    /\ finish_order = <<>>
    /\ display = <<>>

SpecSetupFair == InitSetupFair /\ [][NextSetup]_vars /\ WF_vars(NextSetup)

NoRepeat(seq) == \A a, b \in 1..Len(seq) : seq[a] = seq[b] => a = b

\* C35: when every handler call returns or raises in finite time,
\* run_full_setup returns (max_parallel >= 1); on the way each phase is
\* visited at most once, each group of a phase at most once, and no
\* operation has more than retry_count + 1 handler calls.
C35_FullSetupTerminates ==
    /\ <>(setup.pc = "returned")
    /\ [](/\ NoRepeat(setup.ran)
          /\ \A a, b \in 1..Len(phase.collected) :
                phase.collected[a].g = phase.collected[b].g => a = b
          /\ \A t \in DOMAIN tasks :
                tasks[t].calls <= tasks[t].operation.retry_count + 1)

C35_Witness ==
    /\ entry.fn = "run_full_setup"
    /\ setup.pc = "returned"
    /\ config.execution.max_parallel = 1
    /\ setup.ran = <<1, 2>>
    /\ config.execution.parallel
    /\ ~DryRun
    /\ \E t \in DOMAIN tasks : tasks[t].calls = 2

\* The phase at position i is enabled and each of its dependencies names an
\* earlier phase of which the same holds: no chain of depends_on leads from
\* it to a disabled phase, to a phase passed over, or to a name no earlier
\* phase has.
RECURSIVE Runnable(_)
Runnable(i) ==
    /\ config.phases[i].enabled
    /\ \A k \in 1..Len(config.phases[i].depends_on) :
          \E j \in 1..(i - 1) :
              /\ config.phases[j].name = config.phases[i].depends_on[k]
              /\ Runnable(j)

DependsOnLater(i) ==
    \E k \in 1..Len(config.phases[i].depends_on) :
        /\ \E j \in (i + 1)..Len(config.phases) :
               config.phases[j].name = config.phases[i].depends_on[k]
        /\ \A j \in 1..i : config.phases[j].name # config.phases[i].depends_on[k]

----------------------------------------------------------------------------
(* A call of run_phase or of run_phase_by_name.                            *)

MaxGroups == 2     \* a phase names at most MaxGroups groups

\* The versions maps the phase calls run against: none, or one version "v1"
\* with a group of one operation and a group of two, the second of a type
\* without a registered handler.
PhaseVersions ==
    {<<>>} \cup
    {<<[version |-> "v1",
        groups |-> [g \in {"g1", "g2"} |->
            IF g = "g1"
            THEN <<Operation("a", "script_exec", 0, None, None, fail_on_error)>>
            ELSE <<Operation("b", "script_exec", 1, None, None, TRUE),
                   Operation("s", "skip", 0, None, None, FALSE)>>]]>> :
     fail_on_error \in BOOLEAN}

\* The group names a phase can list; the versions have no group "gx".
GroupNames == {"g1", "g2", "gx"}

PhasePool ==
    {Phase("A", groups, <<>>, continue_on_error, parallel_groups, TRUE) :
        groups \in Lists(GroupNames, MaxGroups),
        continue_on_error \in BOOLEAN,
        parallel_groups \in BOOLEAN}

\* The calls: run_phase(A), run_phase_by_name("A") and
\* run_phase_by_name("Z"), where no phase is named "Z".
\* The version is given ("v9" is not configured) or, for phases of at most
\* one group, left to the default.
InitPhase ==
    /\ \E phase_config \in PhasePool, versions \in PhaseVersions,
          continue_on_error \in BOOLEAN, max_parallel \in {0, 1, 5} :
           config = [phases |-> <<phase_config>>, versions |-> versions,
                     execution |-> [DefaultExecution EXCEPT
                                       !.continue_on_error = continue_on_error,
                                       !.max_parallel = max_parallel]]
    /\ handlers = _register_default_handlers(EmptyRegistry)
    /\ patched = Unpatched
    /\ \E version \in {NoVersion, "v1", "v9"} :
        /\ version = NoVersion => Len(config.phases[1].groups) <= 1
        /\ \/ /\ entry = EntryCall("run_phase", config.phases[1].name, version)
              /\ phase = PhaseCall(config.phases[1], version)
           \/ /\ \E phase_name \in {"A", "Z"} :
                     entry = EntryCall("run_phase_by_name", phase_name, version)
              /\ phase = NoPhase
    /\ setup = NoSetup
    /\ group = NoFrame
    /\ tasks = <<>>
    /\ finish_order = <<>>
    /\ display = <<>>

NextPhase ==
    \/ RunPhaseByName
    \/ RunPhaseReturn
    \/ RunPhaseStart
    \/ PhaseNextGroup
    \/ PhaseGroupReturn
    \/ PhaseFinish
    \/ SequentialNext
    \/ SequentialResume
    \/ ParallelStart
    \/ GatherReturn
    \/ \E t \in 1..MaxOps :
        \/ ExecuteOperationStart(t)
        \/ HandlerExecute(t)
        \/ RetrySleep(t)

SpecPhase == InitPhase /\ [][NextPhase]_vars

----------------------------------------------------------------------------
(* Properties of run_phase and run_phase_by_name, checked under SpecPhase. *)

RECURSIVE ConcatResults(_)
ConcatResults(collected) ==
    IF collected = <<>> THEN <<>>
    ELSE Head(collected).results \o ConcatResults(Tail(collected))

HasFailure(results) == \E k \in 1..Len(results) : ~results[k].success

NoContinueOnError ==
    ~phase.phase.continue_on_error /\ ~config.execution.continue_on_error

\* The loop over the groups is over.
GroupsOver == phase.pc \in {"finish", "returned"}
              \/ (phase.pc = "idle" /\ entry.pc = "returned")

\* C12: in run_phase the results collected so far are those of the groups
\* run, in order; once a group's results hold a failure while neither the
\* phase's nor the global continue_on_error is set, that group is the last
\* one processed and its results and the earlier ones are the results of the
\* PhaseResult.  For groups [g1, g2] with g1's single operation failing the
\* PhaseResult holds one result and failed_operations = 1.
C12_StopOnFailedGroup ==
    /\ phase.all_results = ConcatResults(phase.collected)
    /\ \A j \in 1..Len(phase.collected) :
          (HasFailure(phase.collected[j].results) /\ NoContinueOnError)
          => /\ j = Len(phase.collected)
             /\ GroupsOver
             /\ phase.g = phase.collected[j].g + 1
             /\ group.pc = "idle"
    /\ (GroupsOver /\ phase.pc # "finish")
       => phase.result.results = ConcatResults(phase.collected)
    /\ (/\ GroupsOver /\ phase.pc # "finish"
        /\ phase.phase.groups = <<"g1", "g2">>
        /\ NoContinueOnError
        /\ Len(phase.collected) >= 1
        /\ HasFailure(phase.collected[1].results))
       => /\ Len(phase.result.results) = 1
          /\ phase.result.failed_operations = 1

C12_Witness ==
    /\ entry.pc = "returned"
    /\ phase.phase.groups = <<"g1", "g2">>
    /\ NoContinueOnError
    /\ Len(phase.collected) = 1
    /\ entry.result.results = phase.collected[1].results
    /\ Len(entry.result.results) = 1
    /\ ~entry.result.results[1].success
    /\ entry.result.failed_operations = 1

\* C13: a phase is not failed by the failure of an operation whose
\* fail_on_error is false: when every failed result of a returned
\* PhaseResult belongs to such an operation, the PhaseResult is successful
\* and every group of the phase was processed.
C13_FailOnErrorDecidesPhaseFailure ==
    (/\ phase.pc = "returned"
     /\ \A k \in 1..Len(phase.result.results) :
           ~phase.result.results[k].success
           => ~phase.result.results[k].operation.fail_on_error)
    => /\ is_successful(phase.result)
       /\ phase.phase.groups # <<>> => phase.g = Len(phase.phase.groups) + 1

\* The notifications of a phase's start and of its summary.
PhaseNotifications ==
    SelectSeq(display, LAMBDA n : n.event \in {"start_phase", "phase_summary"})

\* C31: run_phase on a phase without groups, for a version the configuration
\* holds, returns at once: the PhaseResult has no results, its four counters
\* are 0 and it is successful; no operation is executed, no group call is
\* made and neither the phase start nor the phase summary is shown.
C31_NoGroupsReturnsEmpty ==
    (/\ phase.pc \notin {"idle", "start"}
     /\ phase.phase.groups = <<>>
     /\ HasVersion(phase.version))
    => /\ phase.pc = "returned"
       /\ phase.result.results = <<>>
       /\ phase.result.total_operations = 0
       /\ phase.result.successful_operations = 0
       /\ phase.result.failed_operations = 0
       /\ phase.result.skipped_operations = 0
       /\ is_successful(phase.result)
       /\ tasks = <<>>
       /\ group = NoFrame
       /\ phase.collected = <<>>
       /\ PhaseNotifications = <<>>

C31_Witness ==
    /\ phase.pc = "returned"
    /\ phase.phase.groups = <<>>
    /\ entry.version = NoVersion
    /\ phase.version = "v1"
    /\ Len(display) = 1
    /\ display[1].event = "warning"

\* C37: a PhaseResult returned by run_phase is successful only if every one
\* of its results has success true.
C37_SuccessfulMeansNoFailedResult ==
    (phase.pc = "returned" /\ is_successful(phase.result))
    => \A k \in 1..Len(phase.result.results) : phase.result.results[k].success

ReferentialErrors ==
    {"ValueError: Version not found", "ValueError: Phase not found"}

\* C19: the only exceptions that escape run_phase and run_phase_by_name are
\* the version-not-found and the phase-not-found error.
C19_OnlyReferentialErrorsEscape ==
    /\ phase.pc = "raised" => phase.exception \in ReferentialErrors
    /\ entry.pc = "raised" => entry.exception \in ReferentialErrors

VersionAbsent ==
    /\ entry.version # NoVersion
    /\ \A k \in 1..Len(config.versions) :
          config.versions[k].version # entry.version

PhaseAbsent ==
    /\ entry.fn = "run_phase_by_name"
    /\ \A k \in 1..Len(config.phases) : config.phases[k].name # entry.phase_name

NothingExecuted ==
    /\ tasks = <<>> /\ finish_order = <<>>
    /\ group = NoFrame
    /\ display = <<>>
    /\ phase.result = NoPhaseResult /\ entry.result = NoPhaseResult
    /\ phase.all_results = <<>>

\* C20: run_phase with a version key the configuration lacks ends in the
\* version-not-found error, and run_phase_by_name with a name no configured
\* phase has ends in the phase-not-found error before run_phase is called;
\* in both calls no operation is started, no handler is looked up or called,
\* nothing is shown and no PhaseResult is built.
C20_ReferentialErrorsAbort ==
    /\ PhaseAbsent
       => /\ NothingExecuted
          /\ phase = NoPhase
          /\ entry.pc \in {"start", "raised"}
          /\ entry.pc = "raised" => entry.exception = "ValueError: Phase not found"
    /\ (VersionAbsent /\ ~PhaseAbsent)
       => /\ NothingExecuted
          /\ phase.pc \in {"idle", "start", "raised"}
          /\ entry.pc \in {"start", "await_phase", "raised"}
          /\ phase.pc = "raised"
             => phase.exception = "ValueError: Version not found"
          /\ entry.pc = "raised"
             => entry.exception = "ValueError: Version not found"

C20_Witness ==
    /\ PhaseAbsent
    /\ entry.pc = "raised"
    /\ entry.exception = "ValueError: Phase not found"
    /\ config.phases # <<>>
    /\ config.phases[1].groups = <<"g1", "g2">>
    /\ config.versions # <<>>
    /\ entry.version = "v1"

\* The positions of phase.groups the loop has gone past.
GroupsPassed == {j \in 1..Len(phase.phase.groups) : j < phase.g}

\* The version of the running phase has no group of that name.
GroupMissing(j) ==
    /\ HasVersion(phase.version)
    /\ phase.phase.groups[j] \notin DOMAIN VersionConfig(phase.version).groups

GroupWarnings ==
    SelectSeq(display, LAMBDA n : n.event = "warning" /\ n.name \in GroupNames)

\* C22: in run_phase a group the version lacks counts as zero operations:
\* one warning is shown for it, no group call is made for it, the loop goes
\* on to the next group, and nothing is raised; a phase whose groups are all
\* missing returns a successful PhaseResult with total_operations = 0.
C22_MissingGroupPassedOver ==
    phase.pc \in {"groups", "await_group", "finish", "returned", "raised"}
    => /\ Len(GroupWarnings) = Cardinality({j \in GroupsPassed : GroupMissing(j)})
       /\ \A j \in GroupsPassed :
             GroupMissing(j)
             => /\ \A c \in 1..Len(phase.collected) : phase.collected[c].g # j
                /\ (GroupsOver /\ phase.g = j + 1) => j = Len(phase.phase.groups)
       /\ (/\ phase.phase.groups # <<>>
           /\ \A j \in 1..Len(phase.phase.groups) : GroupMissing(j))
          => /\ phase.pc # "raised"
             /\ tasks = <<>>
             /\ phase.pc = "returned"
                => /\ phase.result.total_operations = 0
                   /\ phase.result.results = <<>>
                   /\ is_successful(phase.result)

C22_Witness ==
    /\ entry.pc = "returned"
    /\ phase.phase.groups = <<"gx", "g2">>
    /\ Len(GroupWarnings) = 1
    /\ Len(phase.collected) = 1
    /\ phase.collected[1].g = 2
    /\ entry.result.total_operations = 2
    /\ is_successful(entry.result)

C22_AllMissing ==
    /\ entry.pc = "returned"
    /\ phase.phase.groups = <<"gx", "gx">>
    /\ Len(GroupWarnings) = 2
    /\ entry.result.total_operations = 0

\* C29: an operation that was attempted adds exactly one result to its
\* group's results however many handler calls its retry loop made; the
\* results of a PhaseResult are the results of the group calls, joined in the
\* order of the phase's groups, and total_operations is their number.
C29_OneResultPerOperation ==
    /\ \A t \in DOMAIN tasks :
          Len(SelectSeq(finish_order, LAMBDA x : x = t)) = IF Done(t) THEN 1 ELSE 0
    /\ group.pc = "returned"
       => /\ Len(group.results) = Len(tasks)
          /\ \A k \in 1..Len(group.results) :
                /\ Done(k)
                /\ group.results[k] = tasks[k].result
                /\ group.results[k].operation = group.operations[k]
    /\ \A c \in 1..Len(phase.collected) :
          /\ c > 1 => phase.collected[c - 1].g < phase.collected[c].g
          /\ \A k \in 1..Len(phase.collected[c].results) :
                phase.collected[c].results[k].operation =
                    VersionConfig(phase.version).groups[
                        phase.phase.groups[phase.collected[c].g]][k]
    /\ phase.pc = "returned"
       => /\ phase.result.results = ConcatResults(phase.collected)
          /\ phase.result.total_operations = Len(phase.result.results)

C29_Witness ==
    /\ entry.pc = "returned"
    /\ phase.phase.groups = <<"g2", "g1">>
    /\ Len(phase.collected) = 2
    /\ entry.result.total_operations = 3
    /\ entry.result.results[1].retries_used = 1
    /\ entry.result.results[1].success
    /\ entry.result.results[3].operation.description = "a"

-----------------------------------------------------------------------------
(* run_phase over groups of different operation types, with and without    *)
(* execution.parallel and phase.parallel_groups.                           *)

\* One version: gp holds no restart and no delete, gr holds a restart after
\* another operation, gd holds a delete only.
ModeVersions ==
    <<[version |-> "v1",
       groups |-> [g \in {"gp", "gr", "gd"} |->
           CASE g = "gp" -> <<Operation("a", "script_exec", 0, None, None, FALSE),
                              Operation("b", "kubectl_exec", 0, None, None, FALSE)>>
             [] g = "gr" -> <<Operation("a", "script_exec", 0, None, None, FALSE),
                              Operation("r", "kubectl_restart", 0, None, None, FALSE)>>
             [] g = "gd" -> <<Operation("d", "kubectl_delete", 0, None, None, FALSE)>>]]>>

ModeGroupNames == {"gp", "gr", "gd"}

ModePhases ==
    {Phase("A", groups, <<>>, TRUE, parallel_groups, TRUE) :
        groups \in Lists(ModeGroupNames, MaxGroups) \ {<<>>},
        parallel_groups \in BOOLEAN}

InitPhaseModes ==
    /\ \E phase_config \in ModePhases, parallel \in BOOLEAN :
           config = [phases |-> <<phase_config>>, versions |-> ModeVersions,
                     execution |-> [DefaultExecution EXCEPT !.parallel = parallel]]
    /\ handlers = _register_default_handlers(EmptyRegistry)
    /\ patched = Unpatched
    /\ entry = EntryCall("run_phase", config.phases[1].name, "v1")
    /\ phase = PhaseCall(config.phases[1], "v1")
    /\ setup = NoSetup
    /\ group = NoFrame
    /\ tasks = <<>>
    /\ finish_order = <<>>
    /\ display = <<>>

NextPhaseModes ==
    \/ RunPhaseReturn
    \/ RunPhaseStart
    \/ PhaseNextGroup
    \/ PhaseGroupReturn
    \/ PhaseFinish
    \/ SequentialNext
    \/ SequentialResume
    \/ ParallelStart
    \/ GatherReturn
    \/ \E t \in 1..MaxOps :
        \/ ExecuteOperationStart(t)
        \/ HandlerExecute(t)

SpecPhaseModes == InitPhaseModes /\ [][NextPhaseModes]_vars

\* The method the claim expects for the group at position j of the phase.
HoldsRestartOrDelete(operations) ==
    \E k \in 1..Len(operations) :
        operations[k].type = "kubectl_restart" \/ operations[k].type = "kubectl_delete"

ExpectedPath(j) ==
    LET operations == GroupOperationsOf(VersionConfig(phase.version),
                                        phase.phase.groups[j])
    IN  IF phase.phase.parallel_groups
           \/ (config.execution.parallel /\ ~HoldsRestartOrDelete(operations))
        THEN "_execute_parallel" ELSE "_execute_sequential"

\* C23: run_phase calls _execute_parallel for a group exactly when
\* phase.parallel_groups is true, or execution.parallel is true and no
\* operation of the group is of type kubectl_restart or kubectl_delete; in
\* every other case it calls _execute_sequential.
C23_ParallelPathChoice ==
    /\ phase.pc = "await_group" => group.fn = ExpectedPath(phase.g)
    /\ \A c \in 1..Len(phase.collected) :
          phase.collected[c].fn = ExpectedPath(phase.collected[c].g)

C23_Witness ==
    /\ entry.pc = "returned"
    /\ config.execution.parallel
    /\ ~phase.phase.parallel_groups
    /\ phase.phase.groups = <<"gd", "gp">>
    /\ Len(phase.collected) = 2
    /\ phase.collected[1].fn = "_execute_sequential"
    /\ phase.collected[2].fn = "_execute_parallel"

C23_ForcedParallel ==
    /\ entry.pc = "returned"
    /\ ~config.execution.parallel
    /\ phase.phase.parallel_groups
    /\ phase.phase.groups = <<"gr", "gd">>
    /\ \A c \in 1..2 : phase.collected[c].fn = "_execute_parallel"

-----------------------------------------------------------------------------
(* A HandlerRegistry used directly: register, unregister and get_handler   *)
(* called in any order.                                                    *)

MaxCalls == 3      \* at most MaxCalls calls are made on the registry

RegistryTypes == {"script_exec", "http_request", "custom"}

RegistryHandlers == {"H1", "H2"}

\* entry.calls: one record for each call made, with the registry before and
\* after it and what the call returned.
RegistryCall(method, operation_type, handler, before, after, returned) ==
    [method |-> method, type |-> operation_type, handler |-> handler,
     before |-> before, after |-> after, returned |-> returned]

InitRegistry ==
    /\ handlers \in {EmptyRegistry, _register_default_handlers(EmptyRegistry)}
    /\ entry = [fn |-> "HandlerRegistry", initial |-> handlers, calls |-> <<>>]
    /\ config = [phases |-> <<>>, versions |-> <<>>, execution |-> DefaultExecution]
    /\ patched = Unpatched
    /\ setup = NoSetup
    /\ phase = NoPhase
    /\ group = NoFrame
    /\ tasks = <<>>
    /\ finish_order = <<>>
    /\ display = <<>>

Register(operation_type, handler) ==
    /\ entry.fn = "HandlerRegistry"
    /\ Len(entry.calls) < MaxCalls
    /\ handlers' = register(handlers, operation_type, handler)
    /\ entry' = [entry EXCEPT !.calls = Append(@,
           RegistryCall("register", operation_type, handler, handlers, handlers',
                        NoHandler))]
    /\ UNCHANGED <<config, patched, setup, phase, group, tasks, finish_order,
                   display>>

Unregister(operation_type) ==
    /\ entry.fn = "HandlerRegistry"
    /\ Len(entry.calls) < MaxCalls
    /\ handlers' = unregister(handlers, operation_type)
    /\ entry' = [entry EXCEPT !.calls = Append(@,
           RegistryCall("unregister", operation_type, NoHandler, handlers,
                        handlers', NoHandler))]
    /\ UNCHANGED <<config, patched, setup, phase, group, tasks, finish_order,
                   display>>

GetHandler(operation_type) ==
    /\ entry.fn = "HandlerRegistry"
    /\ Len(entry.calls) < MaxCalls
    /\ entry' = [entry EXCEPT !.calls = Append(@,
           RegistryCall("get_handler", operation_type, NoHandler, handlers,
                        handlers, get_handler(handlers, operation_type)))]
    /\ UNCHANGED <<config, handlers, patched, setup, phase, group, tasks,
                   finish_order, display>>

NextRegistry ==
    \E operation_type \in RegistryTypes :
        \/ \E handler \in RegistryHandlers : Register(operation_type, handler)
        \/ Unregister(operation_type)
        \/ GetHandler(operation_type)

SpecRegistry == InitRegistry /\ [][NextRegistry]_vars

\* The handler of the last register(t, h) among the first n calls that no
\* later unregister(t) among them follows; without such a call, what the
\* registry held for t at the start, or nothing after an unregister(t).
RECURSIVE LastRegistered(_, _)
LastRegistered(operation_type, n) ==
    IF n = 0 THEN entry.initial[operation_type]
    ELSE LET call == entry.calls[n]
         IN  IF call.type = operation_type /\ call.method = "register"
             THEN call.handler
             ELSE IF call.type = operation_type /\ call.method = "unregister"
             THEN NoHandler
             ELSE LastRegistered(operation_type, n - 1)

\* C24: after any sequence of register and unregister calls, get_handler(t)
\* returns the handler of the most recent register(t, h) that no
\* unregister(t) follows; a second register for a type replaces the first,
\* and a register call changes the entry of its own type only.
C24_LastWriteWins ==
    entry.fn = "HandlerRegistry"
    => /\ \A t \in RegistryTypes :
             get_handler(handlers, t) = LastRegistered(t, Len(entry.calls))
       /\ \A n \in 1..Len(entry.calls) :
             LET call == entry.calls[n]
             IN  /\ call.method = "get_handler"
                    => call.returned = LastRegistered(call.type, n - 1)
                 /\ call.method = "register"
                    => /\ call.after[call.type] = call.handler
                       /\ \A u \in OperationType \ {call.type} :
                             call.after[u] = call.before[u]

C24_Witness ==
    /\ entry.fn = "HandlerRegistry"
    /\ Len(entry.calls) = 3
    /\ entry.calls[1].method = "register" /\ entry.calls[1].handler = "H1"
    /\ entry.calls[2].method = "register" /\ entry.calls[2].handler = "H2"
    /\ entry.calls[1].type = "custom" /\ entry.calls[2].type = "custom"
    /\ entry.calls[3].method = "get_handler" /\ entry.calls[3].type = "custom"
    /\ entry.calls[3].returned = "H2"

\* C25: unregister(t) removes the entry of t and changes no other entry;
\* when the registry holds nothing for t it changes nothing; get_handler
\* changes nothing and returns None for a type the registry does not hold.
C25_UnregisterFrame ==
    entry.fn = "HandlerRegistry"
    => \A n \in 1..Len(entry.calls) :
          LET call == entry.calls[n]
          IN  /\ call.method = "unregister"
                 => /\ call.after[call.type] = NoHandler
                    /\ \A u \in OperationType \ {call.type} :
                          call.after[u] = call.before[u]
                    /\ call.before[call.type] = NoHandler
                       => call.after = call.before
              /\ call.method = "get_handler"
                 => /\ call.after = call.before
                    /\ call.before[call.type] = NoHandler
                       => call.returned = NoHandler

C25_Witness ==
    /\ entry.fn = "HandlerRegistry"
    /\ Len(entry.calls) = 3
    /\ entry.calls[1].method = "unregister"
    /\ entry.calls[1].type = "script_exec"
    /\ entry.calls[1].before["script_exec"] = "ScriptHandler"
    /\ entry.calls[1].after["kubectl_exec"] = "KubectlExecHandler"
    /\ entry.calls[2].method = "unregister"
    /\ entry.calls[2].type = "script_exec"
    /\ entry.calls[3].method = "get_handler"
    /\ entry.calls[3].type = "script_exec"
    /\ entry.calls[3].returned = NoHandler

-----------------------------------------------------------------------------
(* _execute_parallel on an Orchestrator whose _execute_operation a test    *)
(* has replaced by a mock with a side effect (test_executor.py 522-536):   *)
(* for each call the side effect either raises Exception("Test error") or  *)
(* calls the method itself.                                                *)

MockOperations ==
    {Operation("a", "script_exec", 0, None, None, TRUE),
     Operation("c", "custom", 0, None, None, FALSE)}

InitParallelMock ==
    /\ \E max_parallel \in 1..2 :
           config = [phases |-> <<>>, versions |-> <<>>,
                     execution |-> [DefaultExecution EXCEPT
                                       !.max_parallel = max_parallel]]
    /\ handlers = _register_default_handlers(EmptyRegistry)
    /\ patched = [Unpatched EXCEPT !.execute_operation = "mock"]
    /\ entry = [fn |-> "_execute_parallel"]
    /\ \E operations \in Lists(MockOperations, MaxOps) :
           group = GroupCall("_execute_parallel", operations, 0, 0)
    /\ setup = NoSetup
    /\ phase = NoPhase
    /\ tasks = <<>>
    /\ finish_order = <<>>
    /\ display = <<>>

NextParallelMock ==
    \/ ParallelStart
    \/ GatherReturn
    \/ \E t \in 1..MaxOps :
        \/ MockSideEffect(t)
        \/ ExecuteOperationStart(t)
        \/ HandlerExecute(t)

SpecParallelMock == InitParallelMock /\ [][NextParallelMock]_vars

Raised(t) == tasks[t].exception # None

\* C21: in _execute_parallel a task that ended with an exception gives, at
\* its operation's position, a result with success false, duration 0 and the
\* exception's text as error; the call does not raise, every other task
\* gives the result it returned, and the call returns one result for each
\* operation of the group.
C21_ExceptionBecomesResult ==
    group.fn = "_execute_parallel"
    => /\ group.pc # "raised"
       /\ \A k \in 1..Len(group.results) :
             /\ Done(k)
             /\ group.results[k].operation = group.operations[k]
             /\ IF Raised(k)
                THEN /\ ~group.results[k].success
                     /\ group.results[k].duration = ZeroDuration
                     /\ group.results[k].error = tasks[k].exception
                ELSE group.results[k] = tasks[k].result
       /\ group.pc = "returned" => Len(group.results) = Len(group.operations)

C21_Witness ==
    /\ group.fn = "_execute_parallel"
    /\ group.pc = "returned"
    /\ config.execution.max_parallel = 1
    /\ Len(group.results) = 3
    /\ Raised(1) /\ ~Raised(2) /\ ~Raised(3)
    /\ group.results[1].error = <<"Test error">>
    /\ group.results[2].success
    /\ ~group.results[3].success

-----------------------------------------------------------------------------
(* run_phase_by_name over phase lists with disabled phases, phases with    *)
(* dependencies and phases of equal names.                                 *)

ByNameVersions ==
    <<[version |-> "v1",
       groups |-> [g \in {"g1"} |->
           <<Operation("a", "script_exec", 0, None, None, TRUE)>>]]>>

\* No phase is run before the call, so a phase that depends on "B" has a
\* dependency that did not run.
ByNamePhases ==
    {Phase(name, <<"g1">>, depends_on, FALSE, FALSE, enabled) :
        name \in {"A", "B"}, depends_on \in {<<>>, <<"B">>}, enabled \in BOOLEAN}

InitByName ==
    /\ \E phases \in Lists(ByNamePhases, MaxPhases) :
           config = [phases |-> phases, versions |-> ByNameVersions,
                     execution |-> DefaultExecution]
    /\ handlers = _register_default_handlers(EmptyRegistry)
    /\ patched = Unpatched
    /\ \E phase_name \in {"A", "B"} :
           entry = EntryCall("run_phase_by_name", phase_name, "v1")
    /\ phase = NoPhase
    /\ setup = NoSetup
    /\ group = NoFrame
    /\ tasks = <<>>
    /\ finish_order = <<>>
    /\ display = <<>>

NextByName ==
    \/ RunPhaseByName
    \/ RunPhaseReturn
    \/ RunPhaseStart
    \/ PhaseNextGroup
    \/ PhaseGroupReturn
    \/ PhaseFinish
    \/ SequentialNext
    \/ SequentialResume
    \/ \E t \in 1..MaxOps :
        \/ ExecuteOperationStart(t)
        \/ HandlerExecute(t)

SpecByName == InitByName /\ [][NextByName]_vars

\* The positions of the configured phases named as the call names.
Named == {k \in 1..Len(config.phases) : config.phases[k].name = entry.phase_name}

FirstNamed == CHOOSE k \in Named : \A j \in Named : k <= j

\* C40: run_phase_by_name runs the first configured phase of the given name,
\* whatever its enabled flag and its depends_on: when a phase of the name
\* exists the call does not raise, the phase run is the first of that name,
\* its operations are executed and its PhaseResult is returned.
C40_ByNameIgnoresGates ==
    (entry.fn = "run_phase_by_name" /\ entry.pc # "start" /\ Named # {})
    => /\ entry.pc # "raised"
       /\ phase.pc # "raised"
       /\ phase.phase = config.phases[FirstNamed]
       /\ entry.pc = "returned"
          => /\ entry.result.phase_config = config.phases[FirstNamed]
             /\ entry.result.total_operations = 1
             /\ Len(tasks) = 1 /\ tasks[1].calls = 1

C40_Witness ==
    /\ entry.fn = "run_phase_by_name"
    /\ entry.pc = "returned"
    /\ entry.phase_name = "A"
    /\ Len(config.phases) = 2
    /\ config.phases[1].name = "A" /\ config.phases[2].name = "A"
    /\ ~config.phases[1].enabled /\ config.phases[2].enabled
    /\ config.phases[1].depends_on = <<"B">>
    /\ config.phases[2].depends_on = <<>>
    /\ entry.result.phase_config = config.phases[1]
    /\ entry.result.total_operations = 1

-----------------------------------------------------------------------------
(* Orchestrator(config, handler_registry=registry) for a registry in which *)
(* the caller has registered handlers, then one operation executed on it.  *)

CallerTypes == {"script_exec", "kubectl_restart", "custom"}

\* The registries a caller can hand over: its own handler registered for
\* any of the caller's types.
CallerRegistries ==
    {[t \in OperationType |-> IF t \in types THEN "CallerHandler" ELSE NoHandler] :
        types \in SUBSET CallerTypes}

InjectedOperations ==
    {Operation("op", type, retry_count, None, None, TRUE) :
        type \in CallerTypes \cup {"http_request"}, retry_count \in 0..1}

InitInjected ==
    /\ handlers \in CallerRegistries
    /\ entry = [fn |-> "__init__", pc |-> "start", injected |-> handlers]
    /\ config = [phases |-> <<>>, versions |-> <<>>, execution |-> DefaultExecution]
    /\ patched = Unpatched
    /\ \E operation \in InjectedOperations :
           tasks = <<NewTask(operation, "_execute_operation")>>
    /\ setup = NoSetup
    /\ phase = NoPhase
    /\ group = NoFrame
    /\ finish_order = <<>>
    /\ display = <<>>

\* executor.py 33-40: the registry handed over is kept and the default
\* handlers are registered in it.
OrchestratorInit ==
    /\ entry.fn = "__init__"
    /\ entry.pc = "start"
    /\ handlers' = _register_default_handlers(handlers)
    /\ entry' = [entry EXCEPT !.pc = "constructed"]
    /\ UNCHANGED <<config, patched, setup, phase, group, tasks, finish_order,
                   display>>

NextInjected ==
    \/ OrchestratorInit
    \/ /\ entry.pc = "constructed"
       /\ \E t \in 1..MaxOps :
            \/ ExecuteOperationStart(t)
            \/ HandlerExecute(t)
            \/ RetrySleep(t)

SpecInjected == InitInjected /\ [][NextInjected]_vars

\* C36: once the Orchestrator is constructed on a registry of the caller,
\* get_handler gives the caller's handler for every type the caller
\* registered, and an operation of such a type is executed by it.
C36_CallerHandlerKept ==
    (entry.fn = "__init__" /\ entry.pc = "constructed")
    => /\ \A t \in OperationType :
             entry.injected[t] # NoHandler
             => get_handler(handlers, t) = entry.injected[t]
       /\ \A t \in DOMAIN tasks :
             (tasks[t].lookups = 1 /\ entry.injected[tasks[t].operation.type] # NoHandler)
             => tasks[t].handler = entry.injected[tasks[t].operation.type]

====
